---- MODULE Spec2Model ----
(***************************************************************************)
(* Ki Wellness AI service: the chat and analysis request handlers          *)
(* (api/chat.py, api/analysis.py), the interaction log                     *)
(* (models/database.py), the topic classifier, the fallback table, the     *)
(* resource catalogue (resources/health_resources.py) and the chat prompt  *)
(* assembly with its length budget.                                        *)
(*                                                                         *)
(* Text is modelled character by character: a text is a record             *)
(* [chars, pad], the characters `chars` followed by `pad` copies of the    *)
(* filler letter "q" (a run-length form of a long tail, so that texts of   *)
(* up to 1000 characters stay small).  No keyword of the program contains  *)
(* the letter "q".                                                         *)
(***************************************************************************)
EXTENDS Integers, Sequences, FiniteSets, TLC

VARIABLES
    connection_pool,    \* models/database.py:15  "None" | "pool"
    environ,            \* os.environ: the variables the service reads
    http,               \* method-independent parts of the incoming request
    checked_out,        \* connections taken from the pool and not put back
    user_interactions,  \* the user_interactions table: rows in insertion order
    pc,                 \* where the request being handled stands
    request,            \* the request being handled (handler and body)
    prompt,             \* the prompt built for the request
    frame,              \* the handler's local variables
    calls,              \* the ollama.chat calls made for the request, in order
    logs,               \* the log_user_interaction calls made for the request
    response,           \* the HTTP response returned for the request
    served,             \* requests answered so far
    ai_settings,        \* the ai_settings table: rows in insertion order
    api_usage,          \* the api_usage table: committed rows in insertion order
    workers,            \* the server's threads, each with its locals
    conversation_history, \* simple_app.py:25: the list the global names
    events,             \* what the simple chat app stored and answered, in order
    arrived,            \* the requests that carried a valid key, in arrival order
    fn,                 \* the arguments of a function applied on its own
    out                 \* its result

vars == <<connection_pool, environ, http, checked_out, user_interactions, pc, request,
          prompt, frame, calls, logs, response, served, ai_settings, api_usage, workers,
          arrived, conversation_history, events, fn, out>>

----------------------------------------------------------------------------
(* Bounds of the model *)

\* requests handled in one run
MaxRequests == 2

\* fragments concatenated into one message text
MaxFrags == 2

\* the message lengths tried around the prompt budget: budget - MaxSlack .. budget + MaxSlack
MaxSlack == 2

\* the longest mood sequence handed to _get_mood_trend
MaxMoods == 6

\* the longest food, mood or water log handed to the summaries
MaxLogs == 6

\* the longest list of notes handed to generate_analysis
MaxNotes == 3

\* rows the ai_settings table can hold
MaxSettings == 3

\* requests with a valid key that arrive in one run of the usage log
MaxArrivals == 3

\* the characters written out in a text handed to sanitize_input
MaxChars == 4

\* the largest max_length handed to sanitize_input
MaxLength == 3

\* entries stored and requests answered in one run of the simple chat app
MaxEvents == 4

\* the longest food log given to _get_common_foods
MaxFoods == 7

----------------------------------------------------------------------------
(* Text *)

FILLER == "q"

UPPER == <<"A","B","C","D","E","F","G","H","I","J","K","L","M",
           "N","O","P","Q","R","S","T","U","V","W","X","Y","Z">>

LOWER == <<"a","b","c","d","e","f","g","h","i","j","k","l","m",
           "n","o","p","q","r","s","t","u","v","w","x","y","z">>

Min(a, b) == IF a <= b THEN a ELSE b

Fill(n) == [i \in 1..n |-> FILLER]

Text(chars, pad) == [chars |-> chars, pad |-> pad]

EMPTY_TEXT == Text(<<>>, 0)

\* len(text)
TextLen(t) == Len(t.chars) + t.pad

\* the characters of a text, its tail cut to at most n fillers
Shown(t, n) == t.chars \o Fill(Min(t.pad, n))

LowerChar(c) ==
    IF \E i \in 1..Len(UPPER) : UPPER[i] = c
    THEN LOWER[CHOOSE i \in 1..Len(UPPER) : UPPER[i] = c]
    ELSE c

UpperChar(c) ==
    IF \E i \in 1..Len(LOWER) : LOWER[i] = c
    THEN UPPER[CHOOSE i \in 1..Len(LOWER) : LOWER[i] = c]
    ELSE c

\* str.lower()
lower(t) == Text([i \in 1..Len(t.chars) |-> LowerChar(t.chars[i])], t.pad)

\* str.upper(), of a text without tail
upper(t) == Text([i \in 1..Len(t.chars) |-> UpperChar(t.chars[i])], t.pad)

\* `word in text`: a window of Len(word) characters covers at most Len(word)
\* characters of the tail
Contains(word, t) ==
    LET s == Shown(t, Len(word))
    IN  \E i \in 0..(Len(s) - Len(word)) : SubSeq(s, i + 1, i + Len(word)) = word

\* any(word in text for word in words)
AnyIn(words, t) == \E k \in 1..Len(words) : Contains(words[k], t)

----------------------------------------------------------------------------
(* Keyword lists *)

\* chat.py:242, the nutrition test of _determine_topic
NUTRITION_KEYWORDS ==
    << <<"e","n","e","r","g","y">>, <<"e","n","e","r","g","i","z","i","n","g">>,
       <<"b","o","o","s","t">>, <<"p","o","w","e","r">>, <<"f","u","e","l">>,
       <<"c","a","l","o","r","i","e">>, <<"c","a","l","o","r","i","e","s">>,
       <<"w","e","i","g","h","t">>, <<"d","i","e","t">>, <<"m","e","a","l">>,
       <<"e","a","t","i","n","g">>, <<"f","o","o","d">> >>

\* chat.py:244
MOOD_KEYWORDS ==
    << <<"m","o","o","d">>, <<"f","e","e","l">>, <<"e","m","o","t","i","o","n">>,
       <<"h","a","p","p","y">>, <<"s","a","d">>, <<"s","t","r","e","s","s">>,
       <<"a","n","x","i","e","t","y">>, <<"d","e","p","r","e","s","s","i","o","n">> >>

\* chat.py:246
HYDRATION_KEYWORDS ==
    << <<"w","a","t","e","r">>, <<"h","y","d","r","a","t","e">>, <<"d","r","i","n","k">>,
       <<"f","l","u","i","d">>, <<"d","e","h","y","d","r","a","t","e","d">> >>

\* chat.py:248
EXERCISE_KEYWORDS ==
    << <<"e","x","e","r","c","i","s","e">>, <<"w","o","r","k","o","u","t">>,
       <<"f","i","t","n","e","s","s">>, <<"a","c","t","i","v","i","t","y">>,
       <<"t","r","a","i","n","i","n","g">> >>

\* chat.py:250
WELLNESS_KEYWORDS ==
    << <<"h","e","a","l","t","h">>, <<"w","e","l","l","n","e","s","s">>, <<"h","a","b","i","t">>,
       <<"l","i","f","e","s","t","y","l","e">>, <<"g","o","a","l">> >>

\* chat.py:259, the first test of _get_fallback_response
FALLBACK_INFLAMMATION_KEYWORDS ==
    << <<"a","n","t","i","-","i","n","f","l","a","m","m","a","t","i","o","n">>,
       <<"a","n","t","i","-","i","n","f","l","a","m","m","a","t","o","r","y">>,
       <<"i","n","f","l","a","m","m","a","t","i","o","n">> >>

\* chat.py:266
FALLBACK_ENERGY_KEYWORDS ==
    << <<"e","n","e","r","g","y">>, <<"e","n","e","r","g","i","z","i","n","g">>,
       <<"b","o","o","s","t">>, <<"m","e","a","l">>, <<"f","o","o","d">>,
       <<"n","u","t","r","i","t","i","o","n">> >>

\* chat.py:273
FALLBACK_HYDRATION_KEYWORDS ==
    << <<"w","a","t","e","r">>, <<"h","y","d","r","a","t","e">>, <<"d","r","i","n","k">> >>

\* chat.py:280
FALLBACK_MOOD_KEYWORDS ==
    << <<"m","o","o","d">>, <<"f","e","e","l">>, <<"s","t","r","e","s","s">>,
       <<"a","n","x","i","e","t","y">>, <<"w","e","l","l","n","e","s","s">> >>

\* chat.py:303, _extract_relevant_context, food context
CTX_ENERGY_KEYWORDS ==
    << <<"e","n","e","r","g","y">>, <<"e","n","e","r","g","i","z","i","n","g">>,
       <<"b","o","o","s","t">>, <<"p","o","w","e","r">> >>

\* chat.py:308
CTX_CALORIE_KEYWORDS ==
    << <<"c","a","l","o","r","i","e">>, <<"c","a","l","o","r","i","e","s">>,
       <<"w","e","i","g","h","t">>, <<"d","i","e","t">> >>

\* chat.py:316
CTX_MOOD_KEYWORDS ==
    << <<"m","o","o","d">>, <<"f","e","e","l">>, <<"e","m","o","t","i","o","n">> >>

\* chat.py:322
CTX_WATER_KEYWORDS ==
    << <<"w","a","t","e","r">>, <<"h","y","d","r","a","t","e">>, <<"d","r","i","n","k">> >>
----------------------------------------------------------------------------
(* Topic classifier and fallback table (api/chat.py) *)

OLLAMA_MODEL == "mistral"

FINE_TUNED_MODEL == "ki-wellness-mistral"

TOPICS == {"nutrition", "mood", "hydration", "exercise", "wellness", "general"}

\* the entries of the fallback table, each by its opening sentence
FALLBACK_INFLAMMATION ==
    "For anti-inflammatory meals, focus on foods rich in omega-3s, antioxidants, and fiber."

FALLBACK_ENERGY ==
    "For sustained energy, combine complex carbs with protein and healthy fats."

FALLBACK_HYDRATION ==
    "Stay hydrated by drinking water throughout the day."

FALLBACK_MOOD ==
    "Support your mood with regular exercise, adequate sleep, and mood-boosting foods like dark chocolate, fatty fish, and leafy greens."

FALLBACK_GENERIC ==
    "I'm here to support your wellness journey!"

FALLBACK_TABLE ==
    {FALLBACK_INFLAMMATION, FALLBACK_ENERGY, FALLBACK_HYDRATION, FALLBACK_MOOD,
     FALLBACK_GENERIC}

\* a classifier that compares the text as typed
_determine_topic_case_sensitive(message) ==
    IF AnyIn(NUTRITION_KEYWORDS, message) THEN "nutrition"
    ELSE IF AnyIn(MOOD_KEYWORDS, message) THEN "mood"
    ELSE IF AnyIn(HYDRATION_KEYWORDS, message) THEN "hydration"
    ELSE IF AnyIn(EXERCISE_KEYWORDS, message) THEN "exercise"
    ELSE IF AnyIn(WELLNESS_KEYWORDS, message) THEN "wellness"
    ELSE "general"

_determine_topic(message) ==
    LET message_lower == lower(message)
    IN  IF AnyIn(NUTRITION_KEYWORDS, message_lower) THEN "nutrition"
        ELSE IF AnyIn(MOOD_KEYWORDS, message_lower) THEN "mood"
        ELSE IF AnyIn(HYDRATION_KEYWORDS, message_lower) THEN "hydration"
        ELSE IF AnyIn(EXERCISE_KEYWORDS, message_lower) THEN "exercise"
        ELSE IF AnyIn(WELLNESS_KEYWORDS, message_lower) THEN "wellness"
        ELSE "general"

_get_fallback_response(message, context_type) ==
    LET message_lower == lower(message)
    IN  IF AnyIn(FALLBACK_INFLAMMATION_KEYWORDS, message_lower) THEN FALLBACK_INFLAMMATION
        ELSE IF AnyIn(FALLBACK_ENERGY_KEYWORDS, message_lower) THEN FALLBACK_ENERGY
        ELSE IF AnyIn(FALLBACK_HYDRATION_KEYWORDS, message_lower) THEN FALLBACK_HYDRATION
        ELSE IF AnyIn(FALLBACK_MOOD_KEYWORDS, message_lower) THEN FALLBACK_MOOD
        ELSE FALLBACK_GENERIC

----------------------------------------------------------------------------
(* Resource catalogue (resources/health_resources.py) *)

MEDIUM_BLOG_RESOURCES ==
    "nutrition" :> <<
        [title |-> "10 Energy-Boosting Foods for Better Performance",
         url |-> "https://kiwellness.medium.com/10-energy-boosting-foods-for-better-performance"],
        [title |-> "The Complete Guide to Healthy Meal Planning",
         url |-> "https://kiwellness.medium.com/complete-guide-to-healthy-meal-planning"],
        [title |-> "Understanding Calories: Quality vs Quantity",
         url |-> "https://kiwellness.medium.com/understanding-calories-quality-vs-quantity"] >>
    @@ "mood" :> <<
        [title |-> "5 Simple Ways to Boost Your Mood Naturally",
         url |-> "https://kiwellness.medium.com/5-simple-ways-to-boost-your-mood-naturally"],
        [title |-> "The Connection Between Diet and Mental Health",
         url |-> "https://kiwellness.medium.com/diet-and-mental-health-connection"],
        [title |-> "Tracking Your Mood: A Beginner's Guide",
         url |-> "https://kiwellness.medium.com/tracking-your-mood-beginners-guide"] >>
    @@ "hydration" :> <<
        [title |-> "Hydration 101: How Much Water Do You Really Need?",
         url |-> "https://kiwellness.medium.com/hydration-101-how-much-water-do-you-really-need"],
        [title |-> "Signs You're Not Drinking Enough Water",
         url |-> "https://kiwellness.medium.com/signs-youre-not-drinking-enough-water"],
        [title |-> "Creative Ways to Stay Hydrated Throughout the Day",
         url |-> "https://kiwellness.medium.com/creative-ways-to-stay-hydrated"] >>
    @@ "wellness" :> <<
        [title |-> "Building Healthy Habits That Actually Stick",
         url |-> "https://kiwellness.medium.com/building-healthy-habits-that-actually-stick"],
        [title |-> "Self-Care for Busy People: 5-Minute Wellness Rituals",
         url |-> "https://kiwellness.medium.com/self-care-for-busy-people"],
        [title |-> "The Power of Small Changes in Your Health Journey",
         url |-> "https://kiwellness.medium.com/power-of-small-changes-in-health-journey"] >>
    @@ "general" :> <<
        [title |-> "Getting Started with Ki Wellness: Your Complete Guide",
         url |-> "https://kiwellness.medium.com/getting-started-with-ki-wellness"],
        [title |-> "The Science Behind Self Health Tracking",
         url |-> "https://kiwellness.medium.com/science-behind-self-health-tracking"] >>

AUTHORITATIVE_SOURCES ==
    "nutrition" :> <<
        [title |-> "Nutrition Basics - Mayo Clinic",
         url |-> "https://www.mayoclinic.org/healthy-lifestyle/nutrition-and-healthy-eating/basics/nutrition-basics/hlv-20049477"],
        [title |-> "Healthy Eating - Harvard Health",
         url |-> "https://www.health.harvard.edu/topics/healthy-eating"] >>
    @@ "mood" :> <<
        [title |-> "Mental Health - Mayo Clinic",
         url |-> "https://www.mayoclinic.org/healthy-lifestyle/adult-health/in-depth/mental-health/art-20044098"],
        [title |-> "Depression and Anxiety - WebMD",
         url |-> "https://www.webmd.com/depression/default.htm"] >>
    @@ "hydration" :> <<
        [title |-> "Water: How Much Should You Drink? - Mayo Clinic",
         url |-> "https://www.mayoclinic.org/healthy-lifestyle/nutrition-and-healthy-eating/in-depth/water/art-20044256"],
        [title |-> "Hydration - Harvard Health",
         url |-> "https://www.health.harvard.edu/staying-healthy/how-much-water-should-you-drink"] >>
    @@ "exercise" :> <<
        [title |-> "Exercise - Mayo Clinic",
         url |-> "https://www.mayoclinic.org/healthy-lifestyle/fitness/in-depth/exercise/art-20048389"],
        [title |-> "Physical Activity - CDC",
         url |-> "https://www.cdc.gov/physicalactivity/basics/index.htm"] >>

\* list[:n]
Take(list, n) == SubSeq(list, 1, Min(n, Len(list)))

\* a lookup that goes from the topic straight to 'general'
get_relevant_resources_by_topic_only(question_type, topic) ==
    LET blog ==
            IF topic \in DOMAIN MEDIUM_BLOG_RESOURCES
            THEN Take(MEDIUM_BLOG_RESOURCES[topic], 2)
            ELSE Take(MEDIUM_BLOG_RESOURCES["general"], 1)
        authoritative ==
            IF topic \in DOMAIN AUTHORITATIVE_SOURCES
            THEN Take(AUTHORITATIVE_SOURCES[topic], 1)
            ELSE <<>>
    IN  blog \o authoritative

\* health_resources.py:142-159
get_relevant_resources(question_type, topic) ==
    LET blog ==
            IF topic \in DOMAIN MEDIUM_BLOG_RESOURCES
            THEN Take(MEDIUM_BLOG_RESOURCES[topic], 2)
            ELSE IF question_type \in DOMAIN MEDIUM_BLOG_RESOURCES
            THEN Take(MEDIUM_BLOG_RESOURCES[question_type], 2)
            ELSE Take(MEDIUM_BLOG_RESOURCES["general"], 1)
        authoritative ==
            IF topic \in DOMAIN AUTHORITATIVE_SOURCES
            THEN Take(AUTHORITATIVE_SOURCES[topic], 1)
            ELSE <<>>
    IN  blog \o authoritative

\* len(str(n)) of an integer n >= 0
RECURSIVE Digits(_)
Digits(n) == IF n < 10 THEN 1 ELSE 1 + Digits(n \div 10)

RECURSIVE SumLen(_)
SumLen(pieces) ==
    IF pieces = <<>> THEN 0 ELSE Head(pieces).len + SumLen(Tail(pieces))

\* the text format_resources_for_prompt returns, as its lines
format_resources_for_prompt(resources) ==
    IF resources = <<>> THEN <<>>
    ELSE <<[line |-> "\n\nAvailable Resources:\n",
            len |-> Len("\n\nAvailable Resources:\n")]>>
         \o [i \in 1..Len(resources) |->
                [line |-> resources[i].title,
                 len |-> Digits(i) + Len(". ") + Len(resources[i].title) + Len(" - ")
                         + Len(resources[i].url) + Len("\n")]]

----------------------------------------------------------------------------
(* Chat prompt assembly (api/chat.py) *)

\* Python's None, and an absent or empty dictionary entry
NONE == [none |-> TRUE]

\* len() of the fixed instructions appended to every prompt (chat.py:209-217
\* and, the same text, chat.py:226-234)
INSTRUCTIONS_LEN == 411

\* the prompt budget of _create_optimized_prompt
PROMPT_BUDGET == 1000

\* len(' | '.join(parts))
JoinedLen(parts) ==
    IF parts = <<>> THEN 0 ELSE SumLen(parts) + Len(" | ") * (Len(parts) - 1)

\* f"{v:.1f}" of a value held in tenths
OneDecimalLen(tenths) == Digits(tenths \div 10) + Len(".") + 1

_extract_relevant_context(message, context, context_type) ==
    LET message_lower == lower(message)
        avg_part(food_data) ==
            IF food_data.avg_calories > 0
            THEN <<[text |-> "avg %d cal/meal", value |-> food_data.avg_calories,
                    len |-> Len("avg ") + Digits(food_data.avg_calories)
                            + Len(" cal/meal")]>>
            ELSE <<>>
    IN  IF context = NONE THEN <<>>
        ELSE IF context_type = "food" /\ context.food_summary # NONE
        THEN LET food_data == context.food_summary
             IN  IF AnyIn(CTX_ENERGY_KEYWORDS, message_lower)
                 THEN <<[text |-> "Logged %d meals", value |-> food_data.total_entries,
                         len |-> Len("Logged ") + Digits(food_data.total_entries)
                                 + Len(" meals")]>>
                      \o avg_part(food_data)
                 ELSE IF AnyIn(CTX_CALORIE_KEYWORDS, message_lower)
                 THEN <<[text |-> "Total calories: %d",
                         value |-> food_data.total_calories,
                         len |-> Len("Total calories: ")
                                 + Digits(food_data.total_calories)]>>
                      \o avg_part(food_data)
                 ELSE <<>>
        ELSE IF context_type = "mood" /\ context.mood_summary # NONE
        THEN LET mood_data == context.mood_summary
             IN  IF AnyIn(CTX_MOOD_KEYWORDS, message_lower)
                 THEN <<[text |-> "Average mood: %.1f/5", value |-> mood_data.avg_mood,
                         len |-> Len("Average mood: ")
                                 + OneDecimalLen(mood_data.avg_mood) + Len("/5")],
                        [text |-> "Logged %d mood entries",
                         value |-> mood_data.total_entries,
                         len |-> Len("Logged ") + Digits(mood_data.total_entries)
                                 + Len(" mood entries")]>>
                 ELSE <<>>
        ELSE IF context_type = "water" /\ context.water_summary # NONE
        THEN LET water_data == context.water_summary
             IN  IF AnyIn(CTX_WATER_KEYWORDS, message_lower)
                 THEN <<[text |-> "Daily water average: %.1f cups",
                         value |-> water_data.avg_daily_water,
                         len |-> Len("Daily water average: ")
                                 + OneDecimalLen(water_data.avg_daily_water)
                                 + Len(" cups")],
                        [text |-> "Total logged: %.1f cups",
                         value |-> water_data.total_water,
                         len |-> Len("Total logged: ")
                                 + OneDecimalLen(water_data.total_water)
                                 + Len(" cups")]>>
                 ELSE <<>>
        ELSE <<>>

\* chat.py:189-194
ProfileName(context) ==
    IF context = NONE THEN "User"
    ELSE IF context.profile = NONE THEN "User"
    ELSE context.profile.name

\* chat.py:197 and chat.py:222-224: role framing and question
RoleAndQuestion(profile_name, message) ==
    <<[part |-> "framing", profile_name |-> profile_name,
       len |-> Len("You are a supportive AI Health Coach for ") + Len(profile_name)
               + Len(". Keep responses short, helpful, and actionable.\n\n")],
      [part |-> "question", message |-> message,
       len |-> Len("Question: ") + TextLen(message) + Len("\n\n")]>>

Instructions == <<[part |-> "instructions", len |-> INSTRUCTIONS_LEN]>>

\* chat.py:196-217: the prompt with context and resources
AssembledPrompt(message, context, context_type) ==
    LET relevant_context == _extract_relevant_context(message, context, context_type)
        resources == get_relevant_resources(context_type, _determine_topic(message))
        lines == format_resources_for_prompt(resources)
    IN  RoleAndQuestion(ProfileName(context), message)
        \o (IF relevant_context # <<>>
            THEN <<[part |-> "relevant_data", context |-> relevant_context,
                    len |-> Len("Relevant Data: ") + JoinedLen(relevant_context)
                            + Len("\n")]>>
            ELSE <<>>)
        \o (IF resources # <<>>
            THEN <<[part |-> "resources", resources |-> resources,
                    len |-> SumLen(lines)]>>
            ELSE <<>>)
        \o Instructions

\* chat.py:222-234: the template used in place of an oversized prompt
MinimalPrompt(message, context) ==
    RoleAndQuestion(ProfileName(context), message) \o Instructions

\* len(base_prompt)
PromptLen(p) == SumLen(p)

\* a cutover that already replaces a prompt of exactly the budget
_create_optimized_prompt_inclusive(message, context, context_type, chat_history) ==
    LET base_prompt == AssembledPrompt(message, context, context_type)
    IN  IF PromptLen(base_prompt) >= PROMPT_BUDGET
        THEN MinimalPrompt(message, context)
        ELSE base_prompt

_create_optimized_prompt(message, context, context_type, chat_history) ==
    LET base_prompt == AssembledPrompt(message, context, context_type)
    IN  IF PromptLen(base_prompt) > PROMPT_BUDGET
        THEN MinimalPrompt(message, context)
        ELSE base_prompt

----------------------------------------------------------------------------
(* sanitize_input (utils/auth.py) *)

\* the default max_length of sanitize_input
SANITIZE_MAX_LENGTH == 1000

DANGEROUS_CHARS == {"<", ">", "\"", "'", "&", ";", "(", ")", "{", "}", "[", "]"}

WHITESPACE == {" ", "\t", "\n", "\r"}

NotDangerous(c) == c \notin DANGEROUS_CHARS

RECURSIVE LStrip(_)
LStrip(s) == IF s # <<>> /\ Head(s) \in WHITESPACE THEN LStrip(Tail(s)) ELSE s

RECURSIVE RStrip(_)
RStrip(s) ==
    IF s # <<>> /\ s[Len(s)] \in WHITESPACE THEN RStrip(SubSeq(s, 1, Len(s) - 1)) ELSE s

\* text[:max_length]
Truncate(t, max_length) ==
    IF TextLen(t) <= max_length THEN t
    ELSE IF Len(t.chars) >= max_length THEN Text(SubSeq(t.chars, 1, max_length), 0)
    ELSE Text(t.chars, max_length - Len(t.chars))

\* str.strip(): the tail of fillers is not whitespace
Strip(t) ==
    IF t.pad = 0 THEN Text(RStrip(LStrip(t.chars)), 0) ELSE Text(LStrip(t.chars), t.pad)

\* a sanitizer that strips before it removes the dangerous characters
sanitize_input_strip_first(text, max_length) ==
    IF text = NONE \/ TextLen(text) = 0 THEN EMPTY_TEXT
    ELSE LET cut == Strip(Truncate(text, max_length))
         IN  Text(SelectSeq(cut.chars, NotDangerous), cut.pad)

\* auth.py:105-119: cut to max_length, the dangerous characters removed, then
\* stripped
sanitize_input(text, max_length) ==
    IF text = NONE \/ TextLen(text) = 0 THEN EMPTY_TEXT
    ELSE LET cut == Truncate(text, max_length)
         IN  Strip(Text(SelectSeq(cut.chars, NotDangerous), cut.pad))

----------------------------------------------------------------------------
(* Inputs *)

\* pieces of message text: keywords of each list in mixed case, keywords of one
\* list only ("fluid", "Diet": topic lists; "nutrition", "inflammation": fallback
\* table), halves of a keyword ("me", "al"), text without a keyword
FRAGMENTS ==
    << <<"E","n","e","r","g","y">>, <<"M","O","O","D">>, <<"w","a","t","e","r">>,
       <<"f","l","u","i","d">>, <<"W","o","r","k","o","u","t">>,
       <<"g","o","a","l">>, <<"n","u","t","r","i","t","i","o","n">>,
       <<"i","n","f","l","a","m","m","a","t","i","o","n">>,
       <<"h","e","l","l","o">>, <<"m","e">>, <<"a","l">>, <<" ">>,
       <<"D","i","e","t">>, <<"f","e","e","l">> >>

RECURSIVE Concats(_)
Concats(n) ==
    IF n = 0 THEN {<<>>}
    ELSE LET shorter == Concats(n - 1)
         IN  shorter \cup {s \o FRAGMENTS[i] : s \in shorter, i \in 1..Len(FRAGMENTS)}

\* the summaries a client sends as context (api/analysis.py:237-270 builds them)
FOOD_SUMMARY == [total_entries |-> 3, avg_calories |-> 500, total_calories |-> 1500]

MOOD_SUMMARY == [total_entries |-> 6, avg_mood |-> 33]

WATER_SUMMARY == [total_entries |-> 4, avg_daily_water |-> 15, total_water |-> 105]

Context(profile, food, mood, water) ==
    [profile |-> profile, food_summary |-> food, mood_summary |-> mood,
     water_summary |-> water]

CONTEXTS ==
    {NONE,
     Context(NONE, NONE, NONE, NONE),
     Context([name |-> "Alexandra"], NONE, NONE, NONE),
     Context(NONE, FOOD_SUMMARY, NONE, NONE),
     Context(NONE, NONE, MOOD_SUMMARY, NONE),
     Context([name |-> "Al"], NONE, NONE, WATER_SUMMARY)}

CONTEXT_TYPES == {"minimal", "food", "mood", "water", "nutrition"}

\* the tails tried for a message: none, the longest sanitize_input lets through,
\* and those that bring the assembled prompt within MaxSlack of the budget
Max(a, b) == IF a >= b THEN a ELSE b

Pads(chars, context, context_type) ==
    LET longest == SANITIZE_MAX_LENGTH - Len(chars)
        unpadded == PromptLen(AssembledPrompt(Text(chars, 0), context, context_type))
    IN  {0, longest}
        \cup (Max(0, PROMPT_BUDGET - unpadded - MaxSlack)
              .. Min(longest, PROMPT_BUDGET - unpadded + MaxSlack))

----------------------------------------------------------------------------
(* Log entries and summaries (api/analysis.py) *)

\* log.get(key, default) of a log entry (a dict: a record with the keys it has)
Get(log, key, default) == IF key \in DOMAIN log THEN log[key] ELSE default

\* the quotient num / den of a true division, kept exact
Rat(num, den) == [num |-> num, den |-> den]

RatLess(a, b) == a.num * b.den < b.num * a.den

RatEq(a, b) == a.num * b.den = b.num * a.den

\* a + 0.5 and a - 0.5
PlusHalf(a) == Rat(2 * a.num + a.den, 2 * a.den)

MinusHalf(a) == Rat(2 * a.num - a.den, 2 * a.den)

RECURSIVE SumOf(_, _, _)
\* sum(log.get(key, default) for log in entries)
SumOf(entries, key, default) ==
    IF entries = <<>> THEN 0
    ELSE Get(Head(entries), key, default) + SumOf(Tail(entries), key, default)

\* logs[:n] and logs[n:]
Prefix(entries, n) == SubSeq(entries, 1, Min(n, Len(entries)))

Suffix(entries, n) == SubSeq(entries, Min(n, Len(entries)) + 1, Len(entries))

\* a slice that keeps every entry
Last_whole(entries, n) == entries

\* the mean without the guard for an empty list: 0 / 0
Mean_unguarded(entries, key, default, empty_value) ==
    [num |-> SumOf(entries, key, default), den |-> Len(entries)]

\* logs[-n:]
Last(entries, n) == SubSeq(entries, Max(Len(entries) - n, 0) + 1, Len(entries))

\* a trend that counts a difference of exactly 0.5 as a change
_get_mood_trend_inclusive(mood_logs) ==
    IF Len(mood_logs) < 2 THEN "insufficient_data"
    ELSE LET first_half == Prefix(mood_logs, Len(mood_logs) \div 2)
             second_half == Suffix(mood_logs, Len(mood_logs) \div 2)
             first_avg == Rat(SumOf(first_half, "mood", 3), Len(first_half))
             second_avg == Rat(SumOf(second_half, "mood", 3), Len(second_half))
         IN  IF ~RatLess(second_avg, PlusHalf(first_avg)) THEN "improving"
             ELSE IF ~RatLess(MinusHalf(first_avg), second_avg) THEN "declining"
             ELSE "stable"

\* analysis.py:297-314
_get_mood_trend(mood_logs) ==
    IF Len(mood_logs) < 2 THEN "insufficient_data"
    ELSE LET first_half == Prefix(mood_logs, Len(mood_logs) \div 2)
             second_half == Suffix(mood_logs, Len(mood_logs) \div 2)
             first_avg == Rat(SumOf(first_half, "mood", 3), Len(first_half))
             second_avg == Rat(SumOf(second_half, "mood", 3), Len(second_half))
         IN  IF RatLess(PlusHalf(first_avg), second_avg) THEN "improving"
             ELSE IF RatLess(second_avg, MinusHalf(first_avg)) THEN "declining"
             ELSE "stable"

\* the entries of a list in their order, without repetition
RECURSIVE Distinct(_)
Distinct(names) ==
    IF names = <<>> THEN <<>>
    ELSE LET rest == Distinct(SubSeq(names, 1, Len(names) - 1))
             name == names[Len(names)]
         IN  IF \E i \in 1..Len(rest) : rest[i] = name THEN rest ELSE Append(rest, name)

\* the items of a list with the given count, in the order of the list
WithCount(items, count) ==
    LET Is(item) == item.count = count IN SelectSeq(items, Is)

\* sorted(items, key=count, reverse=True): stable, equal counts keep their order
RECURSIVE SortedByCount(_, _)
SortedByCount(items, count) ==
    IF count = 0 THEN <<>>
    ELSE WithCount(items, count) \o SortedByCount(items, count - 1)

\* a list of the first five names met, not ranked
_get_common_foods_unranked(food_logs) ==
    LET names == [i \in 1..Len(food_logs) |-> Get(food_logs[i], "name", "Unknown")]
        food_counts ==
            [k \in 1..Len(Distinct(names)) |->
                [name |-> Distinct(names)[k],
                 count |-> Cardinality({i \in 1..Len(names) :
                                           names[i] = Distinct(names)[k]})]]
    IN  Prefix(food_counts, 5)

\* analysis.py:286-295
_get_common_foods(food_logs) ==
    LET names == [i \in 1..Len(food_logs) |-> Get(food_logs[i], "name", "Unknown")]
        food_counts ==
            [k \in 1..Len(Distinct(names)) |->
                [name |-> Distinct(names)[k],
                 count |-> Cardinality({i \in 1..Len(names) :
                                           names[i] = Distinct(names)[k]})]]
    IN  Prefix(SortedByCount(food_counts, Len(food_logs)), 5)

\* the mean sum / len(entries) if entries else empty_value
Mean(entries, key, default, empty_value) ==
    IF entries = <<>> THEN Rat(empty_value, 1)
    ELSE Rat(SumOf(entries, key, default), Len(entries))

\* a summary whose average is the total
FoodSummary_total_for_average(food_logs) ==
    [total_entries |-> Len(food_logs),
     avg_calories |-> Rat(SumOf(food_logs, "calories", 0), 1),
     total_calories |-> SumOf(food_logs, "calories", 0),
     common_foods |-> _get_common_foods(food_logs),
     recent_meals |->
        LET recent == Last(food_logs, 5)
        IN  [i \in 1..Len(recent) |->
                [name |-> Get(recent[i], "name", "Unknown"),
                 calories |-> Get(recent[i], "calories", 0),
                 date |-> Get(recent[i], "date", ""),
                 time_of_day |-> Get(recent[i], "time_of_day", "snack")]]]

\* analysis.py:237-248
FoodSummary(food_logs) ==
    [total_entries |-> Len(food_logs),
     avg_calories |-> Mean(food_logs, "calories", 0, 0),
     total_calories |-> SumOf(food_logs, "calories", 0),
     common_foods |-> _get_common_foods(food_logs),
     recent_meals |->
        LET recent == Last(food_logs, 5)
        IN  [i \in 1..Len(recent) |->
                [name |-> Get(recent[i], "name", "Unknown"),
                 calories |-> Get(recent[i], "calories", 0),
                 date |-> Get(recent[i], "date", ""),
                 time_of_day |-> Get(recent[i], "time_of_day", "snack")]]]

\* analysis.py:251-259
MoodSummary(mood_logs) ==
    [total_entries |-> Len(mood_logs),
     avg_mood |-> Mean(mood_logs, "mood", 3, 0),
     mood_trend |-> _get_mood_trend(mood_logs),
     recent_moods |->
        LET recent == Last(mood_logs, 5)
        IN  [i \in 1..Len(recent) |->
                [mood |-> Get(recent[i], "mood", 3),
                 date |-> Get(recent[i], "date", "")]]]

\* a water summary that averages over the entries
WaterSummary_per_entry(water_logs) ==
    [total_entries |-> Len(water_logs),
     total_water |-> SumOf(water_logs, "amount", 0),
     avg_daily_water |-> Mean(water_logs, "amount", 0, 0),
     recent_water |->
        LET recent == Last(water_logs, 5)
        IN  [i \in 1..Len(recent) |->
                [amount |-> Get(recent[i], "amount", 0),
                 date |-> Get(recent[i], "date", "")]]]

\* analysis.py:262-270: the daily average is the total over 7 days
WaterSummary(water_logs) ==
    [total_entries |-> Len(water_logs),
     total_water |-> SumOf(water_logs, "amount", 0),
     avg_daily_water |-> IF water_logs = <<>> THEN Rat(0, 1)
                         ELSE Rat(SumOf(water_logs, "amount", 0), 7),
     recent_water |->
        LET recent == Last(water_logs, 5)
        IN  [i \in 1..Len(recent) |->
                [amount |-> Get(recent[i], "amount", 0),
                 date |-> Get(recent[i], "date", "")]]]

\* analysis.py:220-284
get_user_summary(data) ==
    IF data = NONE \/ data = <<>>
    THEN [status |-> 400, success |-> FALSE, error |-> "No data provided"]
    ELSE LET user_data == Get(data, "user_data", <<>>)
         IN  [status |-> 200, success |-> TRUE,
              summary |->
                 [profile |-> Get(user_data, "profile", <<>>),
                  food_summary |-> FoodSummary(Get(user_data, "food_logs", <<>>)),
                  mood_summary |-> MoodSummary(Get(user_data, "mood_logs", <<>>)),
                  water_summary |-> WaterSummary(Get(user_data, "water_logs", <<>>))]]

\* analysis.py:71: a note's content cut to 80 characters and '...', or whole
Snippet(note) ==
    LET content == IF Get(note, "content", EMPTY_TEXT) = NONE THEN EMPTY_TEXT
                   ELSE Get(note, "content", EMPTY_TEXT)
    IN  IF TextLen(content) > 80
        THEN [text |-> Truncate(content, 80), ellipsis |-> "..."]
        ELSE [text |-> content, ellipsis |-> ""]

\* analysis.py:42-73: the totals, averages and recent items of the analysis
\* prompt
AnalysisAggregates(user_data) ==
    LET food_logs == Get(user_data, "food_logs", <<>>)
        water_logs == Get(user_data, "water_logs", <<>>)
        mood_logs == Get(user_data, "mood_logs", <<>>)
        notes == Get(user_data, "notes", <<>>)
        recent_foods == IF Len(food_logs) > 3 THEN Last(food_logs, 3) ELSE food_logs
        recent_notes == IF Len(notes) > 2 THEN Last(notes, 2) ELSE notes
        recent_moods == Last(mood_logs, 2)
    IN  [food_count |-> Len(food_logs),
         water_count |-> Len(water_logs),
         mood_count |-> Len(mood_logs),
         notes_count |-> Len(notes),
         total_calories |-> SumOf(food_logs, "calories", 0),
         avg_calories |-> Mean(food_logs, "calories", 0, 0),
         total_water |-> SumOf(water_logs, "amount", 0),
         avg_water |-> Mean(water_logs, "amount", 0, 0),
         avg_mood |-> Mean(mood_logs, "mood", 3, 3),
         recent_foods_list |->
            [i \in 1..Len(recent_foods) |->
                [name |-> Get(recent_foods[i], "name", "Unknown"),
                 time_of_day |-> Get(recent_foods[i], "time_of_day", "snack")]],
         recent_moods_list |->
            [i \in 1..Len(recent_moods) |-> Get(recent_moods[i], "mood", NONE)],
         recent_notes_list |->
            [i \in 1..Len(recent_notes) |-> Snippet(recent_notes[i])]]

----------------------------------------------------------------------------
(* The functions applied on their own *)

\* the tables and globals the chat and analysis handlers do not touch
usage_vars == <<api_usage, workers, arrived>>

usage_rest == <<api_usage, arrived>>

simple_vars == <<conversation_history, events>>

stores == <<ai_settings, usage_vars, simple_vars>>

service_vars ==
    <<connection_pool, environ, http, checked_out, user_interactions, pc, request,
      prompt, frame, calls, logs, response, served>>

\* a worker with no request in hand and no connection checked out
WorkerIdle ==
    /\ ai_settings = <<>>
    /\ api_usage = <<>>
    /\ arrived = <<>>
    /\ conversation_history = <<>>
    /\ events = <<>>
    /\ http = NONE
    /\ checked_out = 0
    /\ user_interactions = <<>>
    /\ pc = "idle"
    /\ request = NONE
    /\ prompt = <<>>
    /\ frame = NONE
    /\ calls = <<>>
    /\ logs = <<>>
    /\ response = NONE
    /\ served = 0

\* the service before its first request, VALID_API_KEYS not set
ServiceStarted ==
    /\ environ = [VALID_API_KEYS |-> <<>>]
    /\ workers = <<>>
    /\ WorkerIdle

\* the message as typed, or with its case changed
Recase(message, typed) ==
    IF typed = "lower" THEN lower(message)
    ELSE IF typed = "upper" THEN upper(message)
    ELSE message

InitTopic ==
    /\ ServiceStarted
    /\ connection_pool = "pool"
    /\ fn \in {[message |-> Text(chars, 0)] : chars \in Concats(MaxFrags)}
    /\ out = NONE

DetermineTopic ==
    /\ out = NONE
    /\ \E typed \in {"typed", "lower", "upper"} :
          out' = [typed |-> typed,
                  topic |-> _determine_topic(Recase(fn.message, typed))]
    /\ UNCHANGED <<service_vars, stores, fn>>

SpecTopic == InitTopic /\ [][DetermineTopic]_vars

\* the messages of one fragment, and two with keywords of two topics:
\* "MOODwater" and "Dietfeel"
PROMPT_MESSAGES ==
    Concats(1) \cup {FRAGMENTS[2] \o FRAGMENTS[3], FRAGMENTS[13] \o FRAGMENTS[14]}

InitPrompt ==
    /\ ServiceStarted
    /\ connection_pool = "pool"
    /\ \E chars \in PROMPT_MESSAGES, context \in CONTEXTS, context_type \in CONTEXT_TYPES :
          \E pad \in Pads(chars, context, context_type) :
             fn = [message |-> Text(chars, pad), context |-> context,
                   context_type |-> context_type, chat_history |-> <<>>]
    /\ out = NONE

CreateOptimizedPrompt ==
    /\ out = NONE
    /\ out' = [prompt |-> _create_optimized_prompt(fn.message, fn.context,
                                                   fn.context_type, fn.chat_history)]
    /\ UNCHANGED <<service_vars, stores, fn>>

SpecPrompt == InitPrompt /\ [][CreateOptimizedPrompt]_vars

\* the sequences over S of length at most n
SeqsUpTo(S, n) == UNION {[1..k -> S] : k \in 0..n}

\* mood log entries: with a mood, or without the key
MOOD_ENTRIES == {[mood |-> 2], [mood |-> 4], [mood |-> 5], [date |-> "2024-01-01"]}

InitTrend ==
    /\ ServiceStarted
    /\ connection_pool = "pool"
    /\ fn \in {[mood_logs |-> moods] : moods \in SeqsUpTo(MOOD_ENTRIES, MaxMoods)}
    /\ out = NONE

GetMoodTrend ==
    /\ out = NONE
    /\ out' = [mood_trend |-> _get_mood_trend(fn.mood_logs)]
    /\ UNCHANGED <<service_vars, stores, fn>>

SpecTrend == InitTrend /\ [][GetMoodTrend]_vars

\* log entries with every field, and with fields missing
FOOD_ENTRIES ==
    {[name |-> "oatmeal", calories |-> 500, date |-> "2024-01-01",
      time_of_day |-> "breakfast"],
     [date |-> "2024-01-02"]}

SUMMARY_MOOD_ENTRIES == {[mood |-> 5, date |-> "2024-01-01"], [date |-> "2024-01-02"]}

WATER_ENTRIES == {[amount |-> 2, date |-> "2024-01-01"], [date |-> "2024-01-02"]}

\* notes of 5, 80 and 81 characters, with content null, and without content
NOTE_ENTRIES ==
    {[content |-> Text(<<"t","i","r","e","d">>, 0)],
     [content |-> Text(<<"t","i","r","e","d">>, 75)],
     [content |-> Text(<<"t","i","r","e","d">>, 76)],
     [content |-> NONE],
     [date |-> "2024-01-02"]}

UserData(food_logs, mood_logs, water_logs, notes) ==
    [food_logs |-> food_logs, mood_logs |-> mood_logs, water_logs |-> water_logs,
     notes |-> notes]

\* one collection of every length and content, the others empty or not
USER_DATA ==
    LET foods == SeqsUpTo(FOOD_ENTRIES, MaxLogs)
        moods == SeqsUpTo(SUMMARY_MOOD_ENTRIES, MaxLogs)
        waters == SeqsUpTo(WATER_ENTRIES, MaxLogs)
        notes == SeqsUpTo(NOTE_ENTRIES, MaxNotes)
        food == {<<>>, <<[name |-> "salad", calories |-> 650]>>}
        mood == {<<>>, <<[mood |-> 2]>>}
        water == {<<>>, <<[amount |-> 3]>>}
        note == {<<>>}
    IN  {UserData(f, m, w, n) : f \in foods, m \in mood, w \in water, n \in note}
        \cup {UserData(f, m, w, n) : f \in food, m \in moods, w \in water, n \in note}
        \cup {UserData(f, m, w, n) : f \in food, m \in mood, w \in waters, n \in note}
        \cup {UserData(f, m, w, n) : f \in food, m \in mood, w \in water, n \in notes}

InitSummary ==
    /\ ServiceStarted
    /\ connection_pool = "pool"
    /\ fn \in {[user_data |-> user_data] : user_data \in USER_DATA}
    /\ out = NONE

\* POST /api/analysis/user-summary
GetUserSummary ==
    /\ out = NONE
    /\ out' = [by |-> "get_user_summary", response |-> get_user_summary(fn)]
    /\ UNCHANGED <<service_vars, stores, fn>>

\* the aggregate step of POST /api/analysis/generate
GenerateAnalysisAggregates ==
    /\ out = NONE
    /\ out' = [by |-> "generate_analysis",
               aggregates |-> AnalysisAggregates(fn.user_data)]
    /\ UNCHANGED <<service_vars, stores, fn>>

NextSummary == GetUserSummary \/ GenerateAnalysisAggregates

SpecSummary == InitSummary /\ [][NextSummary]_vars

\* question types: the context types of the chat endpoint and the topic names
\* the names of the foods logged; the first is the name given to an entry
\* without one
FOOD_NAMES ==
    <<"Unknown", "oatmeal", "salad", "rice", "apple", "soup", "tea", "egg", "fig",
      "kale">>

\* the food logs of n entries, up to a renaming of the foods: entry i carries
\* the k-th name, k at most one more than the names met before it
RECURSIVE FoodPatterns(_)
FoodPatterns(n) ==
    IF n = 0 THEN {<<>>}
    ELSE UNION {{Append(pattern, k) :
                    k \in 1..Min(Len(FOOD_NAMES),
                                 Cardinality({pattern[i] : i \in 1..Len(pattern)}) + 1)} :
                pattern \in FoodPatterns(n - 1)}

\* the log of a pattern; the entries of the food `nameless` have no name
FoodLogs(pattern, nameless) ==
    [i \in 1..Len(pattern) |->
        IF pattern[i] = nameless THEN [calories |-> 100 * pattern[i]]
        ELSE [name |-> FOOD_NAMES[pattern[i]], calories |-> 100 * pattern[i]]]

InitFoods ==
    /\ ServiceStarted
    /\ connection_pool = "pool"
    /\ fn \in {FoodLogs(pattern, nameless) :
                 pattern \in UNION {FoodPatterns(n) : n \in 0..MaxFoods},
                 nameless \in 0..2}
    /\ out = NONE

GetCommonFoods ==
    /\ out = NONE
    /\ out' = [common_foods |-> _get_common_foods(fn)]
    /\ UNCHANGED <<service_vars, stores, fn>>

SpecFoods == InitFoods /\ [][GetCommonFoods]_vars

QUESTION_TYPES ==
    CONTEXT_TYPES \cup {"hydration", "wellness", "general", "exercise"}

\* topics: those _determine_topic returns, and strings that name no topic
RESOURCE_TOPICS == TOPICS \cup {"sleep", ""}

InitResources ==
    /\ ServiceStarted
    /\ connection_pool = "pool"
    /\ fn \in {[question_type |-> question_type, topic |-> topic] :
                 question_type \in QUESTION_TYPES, topic \in RESOURCE_TOPICS}
    /\ out = NONE

GetRelevantResources ==
    /\ out = NONE
    /\ out' = [resources |-> get_relevant_resources(fn.question_type, fn.topic)]
    /\ UNCHANGED <<service_vars, stores, fn>>

SpecResources == InitResources /\ [][GetRelevantResources]_vars

\* f"{a:.0f}" of a non-negative number: the nearest integer, a tie to the even one
FormatF0(a) ==
    LET whole == a.num \div a.den
        twice_rest == 2 * (a.num % a.den)
    IN  IF twice_rest < a.den THEN whole
        ELSE IF twice_rest > a.den THEN whole + 1
        ELSE IF whole % 2 = 0 THEN whole ELSE whole + 1

\* f"{a:.1f}" of a non-negative number, in tenths
FormatF1(a) == FormatF0(Rat(10 * a.num, a.den))

\* the chat context a client builds from the summary it was given: the numbers
\* as the f-strings of _extract_relevant_context print them (chat.py:300-322).
\* The averages of the logs used here are 0 or at least 1/2, where
\* `avg_calories > 0` and `round(avg_calories) > 0` agree
ContextFromSummary(summary) ==
    Context(NONE,
            [total_entries |-> summary.food_summary.total_entries,
             avg_calories |-> FormatF0(summary.food_summary.avg_calories),
             total_calories |-> summary.food_summary.total_calories],
            [total_entries |-> summary.mood_summary.total_entries,
             avg_mood |-> FormatF1(summary.mood_summary.avg_mood)],
            [total_entries |-> summary.water_summary.total_entries,
             avg_daily_water |-> FormatF1(summary.water_summary.avg_daily_water),
             total_water |-> 10 * summary.water_summary.total_water])

\* 'What should I eat for energy?'
ENERGY_QUESTION ==
    Text(<<"W","h","a","t"," ","s","h","o","u","l","d"," ","I"," ","e","a","t",
         " ","f","o","r"," ","e","n","e","r","g","y","?">>, 0)

\* 'How many calories?'
CALORIES_QUESTION ==
    Text(<<"H","o","w"," ","m","a","n","y"," ","c","a","l","o","r","i","e","s",
         "?">>, 0)

\* logged meals of 400, 500 and 600 kcal
MEALS ==
    {[name |-> "oatmeal", calories |-> c] : c \in {400, 500, 600}}

InitScenario ==
    /\ ServiceStarted
    /\ connection_pool = "pool"
    /\ fn \in {[data |-> [user_data |-> UserData(food_logs, <<>>, <<>>, <<>>)],
                message |-> message, context_type |-> context_type] :
                 food_logs \in SeqsUpTo(MEALS, MaxLogs),
                 message \in {ENERGY_QUESTION, CALORIES_QUESTION},
                 context_type \in CONTEXT_TYPES}
    /\ out = NONE

\* the logs are summarised (analysis.py:220-284) and the summary is the context
\* of a chat message: the topic, the snippet and the resources that
\* _create_optimized_prompt computes for it (chat.py:199-206), and the prompt
\* it returns
ChatAboutSummary ==
    /\ out = NONE
    /\ LET summary == get_user_summary(fn.data).summary
           context == ContextFromSummary(summary)
       IN  out' = [summary |-> summary,
                   topic |-> _determine_topic(fn.message),
                   relevant_context |->
                       _extract_relevant_context(fn.message, context, fn.context_type),
                   resources |->
                       get_relevant_resources(fn.context_type,
                                              _determine_topic(fn.message)),
                   prompt |->
                       _create_optimized_prompt(fn.message, context, fn.context_type,
                                                <<>>)]
    /\ UNCHANGED <<service_vars, stores, fn>>

SpecScenario == InitScenario /\ [][ChatAboutSummary]_vars

----------------------------------------------------------------------------
(* The interaction log (models/database.py) *)

\* SimpleConnectionPool(minconn=1, maxconn=20): getconn raises PoolError once
\* maxconn connections are checked out
POOL_MAXCONN == 20

\* how one call of log_user_interaction can go: the pool was never created
\* (init_db failed, "App will run without database functionality"); or getconn
\* raises, conn.cursor() raises, the INSERT fails, the commit fails, the
\* rollback in the except block raises as well, or all of it succeeds
LogOutcomes ==
    IF connection_pool = "None" THEN {"pool_none"}
    ELSE IF checked_out >= POOL_MAXCONN THEN {"getconn_raises"}
    ELSE {"ok", "getconn_raises", "cursor_raises", "execute_fails", "commit_fails",
          "rollback_raises"}

\* get_db_connection and conn.cursor() are called before the try block: what
\* they raise leaves log_user_interaction, and so does what conn.rollback()
\* raises inside the except block
LOG_RAISES == {"pool_none", "getconn_raises", "cursor_raises", "rollback_raises"}

\* the outcomes that leave the connection checked out: conn.cursor() raised
\* before the try block whose finally clause returns the connection
LOG_LEAKS == {"cursor_raises"}

\* the call's effect: whether it raised, the table after it, and the
\* connections checked out after it
log_user_interaction(outcome, row) ==
    [raised |-> outcome \in LOG_RAISES,
     rows |-> IF outcome = "ok" THEN Append(user_interactions, row)
              ELSE user_interactions,
     checked_out |-> IF outcome \in LOG_LEAKS THEN checked_out + 1 ELSE checked_out]

Row(interaction_type, response_data, model_used) ==
    [request_no |-> served + 1, interaction_type |-> interaction_type,
     response_data |-> response_data, model_used |-> model_used]

----------------------------------------------------------------------------
(* Requests and responses *)

\* what ollama.chat does: returns a reply with content, raises, or returns a
\* reply without message/content (the subscript then raises KeyError)
OLLAMA_OUTCOMES == {"content", "raises", "no_content"}

\* the text of a model reply
MODEL_TEXT == "<text generated by the model>"

\* the value json.loads returns for a well-formed reply
PARSED_ANALYSIS == "<analysis parsed from the model's JSON>"

\* analysis.py:149-156
DEFAULT_ANALYSIS == "patterns: Data Analysis; suggestions: Complete Your Profile"

\* analysis.py:184-191
FALLBACK_ANALYSIS == "patterns: Getting Started; suggestions: Complete Your Profile"

CHAT_FALLBACK_NOTE == "Using fallback response - AI model temporarily unavailable"

ANALYSIS_FALLBACK_NOTE == "Using fallback analysis - AI model temporarily unavailable"

\* jsonify({'success': True, ...}), status 200
Success(body, model_used, note) ==
    [status |-> 200, success |-> TRUE, body |-> body, model_used |-> model_used,
     note |-> note, error |-> ""]

\* jsonify({'success': False, 'error': ...}), status
Failure(status, error) ==
    [status |-> status, success |-> FALSE, body |-> "", model_used |-> "", note |-> "",
     error |-> error]

Frame(message, context_type) ==
    [message |-> message, context_type |-> context_type, ai_response |-> "",
     analysis |-> "", fallback |-> "", model_used |-> ""]

CHAT_MESSAGES ==
    {NONE, EMPTY_TEXT,
     Text(<<"f","l","u","i","d">>, 0),
     Text(<<"w","a","t","e","r">>, 0),
     Text(<<"E","n","e","r","g","y">>, 0),
     Text(<<"h","e","l","l","o">>, 0),
     Text(<<" ","<","D","r","i","n","k",">"," ">>, 0)}

\* request.get_json() of /api/chat/message: no body, or a body
CHAT_BODIES ==
    {NONE}
    \cup {[message |-> m, context |-> x, context_type |-> t] :
            m \in CHAT_MESSAGES,
            x \in {NONE, Context([name |-> "Al"], NONE, NONE, WATER_SUMMARY)},
            t \in {"minimal", "water"}}

\* request.get_json() of /api/chat/enhanced
ENHANCED_BODIES ==
    {NONE}
    \cup {[question |-> q] :
            q \in {NONE, EMPTY_TEXT, Text(<<"h","e","l","l","o">>, 0)}}

\* request.get_json() of /api/analysis/generate
ANALYSIS_BODIES ==
    {NONE, [user_data |-> NONE],
     [user_data |-> [profile |-> NONE,
                     food_logs |-> <<[calories |-> 450], [calories |-> 500],
                                     [calories |-> 550]>>,
                     water_logs |-> <<>>, mood_logs |-> <<>>, notes |-> <<>>]]}

----------------------------------------------------------------------------
(* Access control (app.py before_request, utils/auth.py) and health views *)

\* the key auth.py:32 accepts when VALID_API_KEYS names no key
DEFAULT_API_KEY ==
    <<"k","i","-","w","e","l","l","n","e","s","s","-","a","i","-",
      "s","e","r","v","i","c","e","-","k","e","y">>

\* s.startswith(prefix)
StartsWith(s, prefix) ==
    Len(s) >= Len(prefix) /\ SubSeq(s, 1, Len(prefix)) = prefix

\* s.split(sep)
RECURSIVE Split(_, _)
Split(s, sep) ==
    IF \E i \in 1..Len(s) : s[i] = sep
    THEN LET i == CHOOSE k \in 1..Len(s) :
                      s[k] = sep /\ \A j \in 1..(k - 1) : s[j] # sep
         IN  <<SubSeq(s, 1, i - 1)>> \o Split(SubSeq(s, i + 1, Len(s)), sep)
    ELSE <<s>>

\* auth.py:27-32: the keys of VALID_API_KEYS, stripped, the empty ones dropped;
\* the default key when none is left
ValidKeys(VALID_API_KEYS) ==
    LET items == Split(VALID_API_KEYS, ",")
        valid_keys == {RStrip(LStrip(items[i])) : i \in 1..Len(items)} \ {<<>>}
    IN  IF valid_keys = {} THEN {DEFAULT_API_KEY} ELSE valid_keys

\* VALID_API_KEYS: not set (os.getenv gives ''), or "k1, k2,"
ENVIRONS ==
    {[VALID_API_KEYS |-> v] : v \in {<<>>, <<"k","1",","," ","k","2",",">>}}

\* the X-API-Key header (or api_key argument): absent, or a key
API_KEYS == {<<>>, <<"k","2">>, DEFAULT_API_KEY}

\* how one call of log_api_usage can go (database.py:175-216)
ApiUsageOutcomes ==
    IF connection_pool = "None" THEN {"skipped"}
    ELSE IF checked_out >= POOL_MAXCONN THEN {"getconn_raises"}
    ELSE {"ok", "getconn_raises", "cursor_raises", "execute_fails"}

\* database.py:175-216: without a pool the call returns at once.  getconn and
\* cursor() are inside the try block, but the except and finally clauses read
\* conn and cursor, which are unbound when getconn or cursor() raised: the
\* UnboundLocalError leaves the function, and after cursor() raised the
\* connection is never put back.  The rows of api_usage are followed statement
\* by statement in SpecUsage
log_api_usage(outcome) ==
    [raised |-> outcome \in {"getconn_raises", "cursor_raises"},
     checked_out |-> IF outcome = "cursor_raises" THEN checked_out + 1
                     ELSE checked_out]

\* a check that accepts every key that is present
verify_api_key_any_key(api_key, outcome) ==
    IF api_key = <<>>
    THEN [ok |-> FALSE, raised |-> FALSE, checked_out |-> checked_out]
    ELSE LET usage == log_api_usage(outcome)
         IN  [ok |-> TRUE, raised |-> usage.raised, checked_out |-> usage.checked_out]

\* auth.py:19-41: the key is looked up in the valid keys; a valid key's use is
\* logged before True is returned
verify_api_key(api_key, outcome) ==
    IF api_key = <<>>
    THEN [ok |-> FALSE, raised |-> FALSE, checked_out |-> checked_out]
    ELSE IF api_key \in ValidKeys(environ.VALID_API_KEYS)
    THEN LET usage == log_api_usage(outcome)
         IN  [ok |-> TRUE, raised |-> usage.raised, checked_out |-> usage.checked_out]
    ELSE [ok |-> FALSE, raised |-> FALSE, checked_out |-> checked_out]

\* the routes: Flask's endpoint name, the path, the view function
ROUTES ==
    {[endpoint |-> <<"c","h","a","t",".","c","h","a","t","_","m","e","s","s","a","g","e">>,
      path |-> <<"/","a","p","i","/","c","h","a","t","/","m","e","s","s","a","g","e">>,
      view |-> "chat_message"],
     [endpoint |-> <<"c","h","a","t",".","e","n","h","a","n","c","e","d","_","c","h","a","t">>,
      path |-> <<"/","a","p","i","/","c","h","a","t","/","e","n","h","a","n","c","e","d">>,
      view |-> "enhanced_chat"],
     [endpoint |-> <<"a","n","a","l","y","s","i","s",".","g","e","n","e","r","a","t","e","_","a","n","a","l","y","s","i","s">>,
      path |-> <<"/","a","p","i","/","a","n","a","l","y","s","i","s","/","g","e","n","e","r","a","t","e">>,
      view |-> "generate_analysis"],
     [endpoint |-> <<"h","e","a","l","t","h",".","h","e","a","l","t","h","_","c","h","e","c","k">>,
      path |-> <<"/","a","p","i","/","h","e","a","l","t","h","/","c","h","e","c","k">>,
      view |-> "health_check"],
     [endpoint |-> <<"h","e","a","l","t","h",".","d","e","t","a","i","l","e","d","_","h","e","a","l","t","h">>,
      path |-> <<"/","a","p","i","/","h","e","a","l","t","h","/","d","e","t","a","i","l","e","d">>,
      view |-> "detailed_health"],
     [endpoint |-> <<"h","e","a","l","t","h">>,
      path |-> <<"/","h","e","a","l","t","h">>,
      view |-> "health"],
     [endpoint |-> <<"s","t","a","t","u","s">>,
      path |-> <<"/","a","p","i","/","s","t","a","t","u","s">>,
      view |-> "status"],
     [endpoint |-> <<"s","t","a","r","t","u","p","_","s","t","a","t","u","s">>,
      path |-> <<"/","s","t","a","r","t","u","p">>,
      view |-> "startup_status"],
     [endpoint |-> <<"o","l","l","a","m","a","_","s","t","a","t","u","s">>,
      path |-> <<"/","a","p","i","/","o","l","l","a","m","a","-","s","t","a","t","u","s">>,
      view |-> "ollama_status"]}

\* the views wrapped in @require_api_key
DECORATED == {"chat_message", "enhanced_chat", "generate_analysis"}

\* the request body before the view has read it
UNREAD == [unread |-> TRUE]

\* app.py:196-214: whether before_request verifies the key of the request
KeyVerified(endpoint, path) ==
    /\ ~Contains(<<"s","t","a","t","i","c">>, Text(endpoint, 0))
    /\ ~Contains(<<"a","u","t","h">>, Text(endpoint, 0))
    /\ ~(Contains(<<"h","e","a","l","t","h">>, Text(endpoint, 0))
         \/ endpoint = <<"h","e","a","l","t","h">>)
    /\ StartsWith(path, <<"/","a","p","i","/">>)

\* jsonify({'error': 'Invalid or missing API key'}), 401: the body carries no
\* success field
Unauthorized ==
    [status |-> 401, success |-> FALSE, body |-> "", model_used |-> "", note |-> "",
     error |-> "Invalid or missing API key"]

\* app.py:411-417: what a hook or a view raises is answered with status 500
InternalError ==
    [status |-> 500, success |-> FALSE, body |-> "", model_used |-> "", note |-> "",
     error |-> "Internal server error"]

\* jsonify({... 'status': status ...}), 200, of the health views
Health(status) ==
    [status |-> 200, success |-> TRUE, body |-> status, model_used |-> "", note |-> "",
     error |-> ""]

\* app.py:193-214: a request arrives; before_request lets it through to its
\* view, or answers 401, or raises
BeforeRequest ==
    /\ pc = "idle"
    /\ served < MaxRequests
    /\ \E route \in ROUTES, api_key \in API_KEYS, outcome \in ApiUsageOutcomes :
          LET verified == IF KeyVerified(route.endpoint, route.path)
                          THEN verify_api_key(api_key, outcome)
                          ELSE [ok |-> TRUE, raised |-> FALSE,
                                checked_out |-> checked_out]
          IN  /\ http' = [endpoint |-> route.endpoint, path |-> route.path,
                          api_key |-> api_key]
              /\ request' = [handler |-> route.view, data |-> UNREAD]
              /\ checked_out' = verified.checked_out
              /\ IF verified.raised
                 THEN /\ response' = InternalError
                      /\ pc' = "done"
                 ELSE IF ~verified.ok
                 THEN /\ response' = Unauthorized
                      /\ pc' = "done"
                 ELSE /\ pc' = "view"
                      /\ UNCHANGED response
    /\ UNCHANGED <<stores, connection_pool, environ, user_interactions, prompt, frame, calls,
                   logs, served, fn, out>>

\* auth.py:43-50: the decorator verifies the key again before the view runs
RequireApiKey ==
    /\ pc = "view"
    /\ request.handler \in DECORATED
    /\ \E outcome \in ApiUsageOutcomes :
          LET verified == verify_api_key(http.api_key, outcome)
          IN  /\ checked_out' = verified.checked_out
              /\ IF verified.raised
                 THEN /\ response' = InternalError
                      /\ pc' = "done"
                 ELSE IF ~verified.ok
                 THEN /\ response' = Unauthorized
                      /\ pc' = "done"
                 ELSE /\ pc' = "handler"
                      /\ UNCHANGED response
    /\ UNCHANGED <<stores, connection_pool, environ, http, user_interactions, request, prompt,
                   frame, calls, logs, served, fn, out>>

\* health.py:17-25 and app.py:318-327: the basic health views answer at once
HealthCheck ==
    /\ pc = "view"
    /\ request.handler \in {"health_check", "health"}
    /\ response' = Health("healthy")
    /\ pc' = "done"
    /\ UNCHANGED <<stores, connection_pool, environ, http, checked_out, user_interactions,
                   request, prompt, frame, calls, logs, served, fn, out>>

\* how the probe `conn = get_db_connection(); conn.close()` can go
ProbeOutcomes ==
    IF connection_pool = "None" THEN {"pool_none"}
    ELSE IF checked_out >= POOL_MAXCONN THEN {"getconn_raises"}
    ELSE {"ok", "getconn_raises"}

\* health.py:61-73, app.py:349-350: the probe closes the connection it took
\* and never puts it back, so the pool keeps counting it as checked out
Probe(outcome) ==
    [healthy |-> outcome = "ok",
     checked_out |-> IF outcome = "ok" THEN checked_out + 1 ELSE checked_out]

\* health.py:27-100: the model and the database are probed, the required
\* environment variables looked up
DetailedHealth ==
    /\ pc = "view"
    /\ request.handler = "detailed_health"
    /\ \E outcome \in OLLAMA_OUTCOMES, db \in ProbeOutcomes, env_set \in BOOLEAN :
          LET probe == Probe(db)
              \* ollama.chat's reply is not read: only raising counts
              ollama_healthy == outcome # "raises"
              degraded == ~ollama_healthy \/ ~probe.healthy \/ ~env_set
          IN  /\ calls' = Append(calls, [model |-> OLLAMA_MODEL, outcome |-> outcome,
                                      content |-> IF outcome = "content" THEN "text"
                                                  ELSE ""])
              /\ checked_out' = probe.checked_out
              /\ response' = Health(IF ~ollama_healthy /\ ~probe.healthy
                                    THEN "unhealthy"
                                    ELSE IF degraded THEN "degraded" ELSE "healthy")
              /\ pc' = "done"
    /\ UNCHANGED <<stores, connection_pool, environ, http, user_interactions, request, prompt,
                   frame, logs, served, fn, out>>

\* app.py:86-87: what safe_ollama_chat returns when the client is missing
NOT_INSTALLED ==
    "AI service is currently unavailable. Ollama Python client is not installed."

\* app.py:84: the default of fallback_response
SAFE_FALLBACK == "I'm experiencing technical difficulties. Please try again later."

\* app.py:45-50: the import of the ollama client succeeded
OLLAMA_AVAILABLE == TRUE

\* app.py:84-96: the reply's content, or the fallback text when the call or the
\* lookup of the content raised; nothing is raised to the caller
safe_ollama_chat(outcome) ==
    IF ~OLLAMA_AVAILABLE THEN NOT_INSTALLED
    ELSE IF outcome = "content" THEN MODEL_TEXT
    ELSE SAFE_FALLBACK

\* jsonify of the status views: the overall status and the two components
Components(code, status, ollama_status, db_status) ==
    [status |-> code, success |-> code = 200, body |-> status, model_used |-> "",
     note |-> "", error |-> "", ollama |-> ollama_status, database |-> db_status]

\* app.py:329-371: the model is probed through safe_ollama_chat, whose text is
\* compared with the missing-client text only, then the database is probed
Status ==
    /\ pc = "view"
    /\ request.handler = "status"
    /\ \E outcome \in OLLAMA_OUTCOMES, db \in ProbeOutcomes :
          LET probe == Probe(db)
              ollama_status == IF safe_ollama_chat(outcome) = NOT_INSTALLED
                               THEN "unhealthy: connection failed" ELSE "healthy"
              db_status == IF probe.healthy THEN "healthy" ELSE "unhealthy"
          IN  /\ calls' = Append(calls, [model |-> OLLAMA_MODEL, outcome |-> outcome,
                                      content |-> IF outcome = "content" THEN "text"
                                                  ELSE ""])
              /\ checked_out' = probe.checked_out
              /\ response' = Components(200,
                                        IF ollama_status = "healthy" /\ probe.healthy
                                        THEN "healthy" ELSE "degraded",
                                        ollama_status, db_status)
              /\ pc' = "done"
    /\ UNCHANGED <<stores, connection_pool, environ, http, user_interactions, request, prompt,
                   frame, logs, served, fn, out>>

\* app.py:269-316: the database is probed, then the model
StartupStatus ==
    /\ pc = "view"
    /\ request.handler = "startup_status"
    /\ \E outcome \in OLLAMA_OUTCOMES, db \in ProbeOutcomes :
          LET probe == Probe(db)
              ollama_status == IF safe_ollama_chat(outcome) = NOT_INSTALLED
                               THEN "unhealthy: connection failed" ELSE "healthy"
              db_status == IF probe.healthy THEN "healthy" ELSE "unhealthy"
          IN  /\ calls' = Append(calls, [model |-> OLLAMA_MODEL, outcome |-> outcome,
                                      content |-> IF outcome = "content" THEN "text"
                                                  ELSE ""])
              /\ checked_out' = probe.checked_out
              /\ response' = Components(200, "complete", ollama_status, db_status)
              /\ pc' = "done"
    /\ UNCHANGED <<stores, connection_pool, environ, http, user_interactions, request, prompt,
                   frame, logs, served, fn, out>>

\* app.py:373-401: the model is probed; the database is not looked at
OllamaStatus ==
    /\ pc = "view"
    /\ request.handler = "ollama_status"
    /\ \E outcome \in OLLAMA_OUTCOMES :
          LET test_response == safe_ollama_chat(outcome)
          IN  /\ calls' = Append(calls, [model |-> OLLAMA_MODEL, outcome |-> outcome,
                                      content |-> IF outcome = "content" THEN "text"
                                                  ELSE ""])
              /\ response' = IF test_response = NOT_INSTALLED
                             THEN Components(500, "unhealthy", "unhealthy", "")
                             ELSE Components(200, "healthy", "healthy", "")
              /\ pc' = "done"
    /\ UNCHANGED <<stores, connection_pool, environ, http, checked_out, user_interactions,
                   request, prompt, frame, logs, served, fn, out>>

----------------------------------------------------------------------------
(* chat_message (api/chat.py:26-121) *)

\* a view that builds the prompt without checking that a message is there
ChatMessage_Receive_unvalidated ==
    /\ pc = "handler"
    /\ request.handler = "chat_message"
    /\ \E data \in CHAT_BODIES :
          /\ request' = [request EXCEPT !.data = data]
          /\ IF data = NONE
             THEN /\ response' = Failure(400, "No data provided")
                  /\ pc' = "done"
                  /\ UNCHANGED <<prompt, frame>>
             ELSE LET message == IF data.message = NONE THEN EMPTY_TEXT
                                 ELSE sanitize_input(data.message, SANITIZE_MAX_LENGTH)
                  IN  /\ prompt' = _create_optimized_prompt(message, data.context,
                                                            data.context_type, <<>>)
                      /\ frame' = Frame(message, data.context_type)
                      /\ pc' = "ollama"
                      /\ UNCHANGED response
    /\ UNCHANGED <<stores, connection_pool, environ, http, checked_out, user_interactions,
                   calls, logs, served, fn, out>>

\* chat.py:31-58: the body is read and validated, the message sanitized, the
\* prompt built
ChatMessage_Receive ==
    /\ pc = "handler"
    /\ request.handler = "chat_message"
    /\ \E data \in CHAT_BODIES :
          /\ request' = [request EXCEPT !.data = data]
          /\ IF data = NONE
             THEN /\ response' = Failure(400, "No data provided")
                  /\ pc' = "done"
                  /\ UNCHANGED <<prompt, frame>>
             ELSE IF data.message = NONE \/ TextLen(data.message) = 0
             THEN /\ response' = Failure(400, "Message is required")
                  /\ pc' = "done"
                  /\ UNCHANGED <<prompt, frame>>
             ELSE LET message == sanitize_input(data.message, SANITIZE_MAX_LENGTH)
                  IN  /\ prompt' = _create_optimized_prompt(message, data.context,
                                                            data.context_type, <<>>)
                      /\ frame' = Frame(message, data.context_type)
                      /\ pc' = "ollama"
                      /\ UNCHANGED response
    /\ UNCHANGED <<stores, connection_pool, environ, http, checked_out, user_interactions,
                   calls, logs, served, fn, out>>

\* a handler that calls the model again after a failed call
ChatMessage_Ollama_retrying ==
    /\ pc = "ollama"
    /\ request.handler = "chat_message"
    /\ \E outcome \in OLLAMA_OUTCOMES :
          /\ calls' = Append(calls, [model |-> OLLAMA_MODEL, outcome |-> outcome,
                                  content |-> IF outcome = "content" THEN "text"
                                              ELSE ""])
          /\ IF outcome = "content"
             THEN /\ frame' = [frame EXCEPT !.ai_response = MODEL_TEXT]
                  /\ pc' = "log"
             ELSE /\ frame' = frame
                  /\ pc' = IF Len(calls) = 0 THEN "ollama" ELSE "fallback_log"
    /\ UNCHANGED <<stores, connection_pool, environ, http, checked_out, user_interactions,
                   request, prompt, logs, response, served, fn, out>>

\* chat.py:61-67 and 92-96: the model call; what it raises is caught at line 92
ChatMessage_Ollama ==
    /\ pc = "ollama"
    /\ request.handler = "chat_message"
    /\ \E outcome \in OLLAMA_OUTCOMES :
          /\ calls' = Append(calls, [model |-> OLLAMA_MODEL, outcome |-> outcome,
                                  content |-> IF outcome = "content" THEN "text"
                                              ELSE ""])
          /\ IF outcome = "content"
             THEN /\ frame' = [frame EXCEPT !.ai_response = MODEL_TEXT]
                  /\ pc' = "log"
             ELSE /\ frame' = [frame EXCEPT !.fallback =
                                  _get_fallback_response(frame.message,
                                                         frame.context_type)]
                  /\ pc' = "fallback_log"
    /\ UNCHANGED <<stores, connection_pool, environ, http, checked_out, user_interactions,
                   request, prompt, logs, response, served, fn, out>>

\* chat.py:70-90: the interaction is logged inside the same try block as the
\* model call, so what log_user_interaction raises is caught at line 92 too
ChatMessage_Log ==
    /\ pc = "log"
    /\ request.handler = "chat_message"
    /\ \E outcome \in LogOutcomes :
          LET done == log_user_interaction(
                          outcome, Row("chat", frame.ai_response, OLLAMA_MODEL))
          IN  /\ logs' = Append(logs, outcome)
              /\ user_interactions' = done.rows
              /\ checked_out' = done.checked_out
              /\ IF done.raised
                 THEN /\ frame' = [frame EXCEPT !.fallback =
                                      _get_fallback_response(frame.message,
                                                             frame.context_type)]
                      /\ pc' = "fallback_log"
                      /\ UNCHANGED response
                 ELSE /\ response' = Success(frame.ai_response, OLLAMA_MODEL, "")
                      /\ pc' = "done"
                      /\ UNCHANGED frame
    /\ UNCHANGED <<stores, connection_pool, environ, http, request, prompt, calls, served, fn,
                   out>>

\* a fallback returned under the model's name and without the note
ChatMessage_FallbackLog_untagged ==
    /\ pc = "fallback_log"
    /\ request.handler = "chat_message"
    /\ \E outcome \in LogOutcomes :
          LET done == log_user_interaction(
                          outcome, Row("chat_fallback", frame.fallback, "fallback"))
          IN  /\ logs' = Append(logs, outcome)
              /\ user_interactions' = done.rows
              /\ checked_out' = done.checked_out
              /\ response' = IF done.raised
                             THEN Failure(500, "str(e)")
                             ELSE Success(frame.fallback, OLLAMA_MODEL, "")
              /\ pc' = "done"
    /\ UNCHANGED <<stores, connection_pool, environ, http, request, prompt, frame, calls,
                   served, fn, out>>

\* chat.py:98-121: the fallback is logged and returned; what
\* log_user_interaction raises here reaches the handler's outer except
ChatMessage_FallbackLog ==
    /\ pc = "fallback_log"
    /\ request.handler = "chat_message"
    /\ \E outcome \in LogOutcomes :
          LET done == log_user_interaction(
                          outcome, Row("chat_fallback", frame.fallback, "fallback"))
          IN  /\ logs' = Append(logs, outcome)
              /\ user_interactions' = done.rows
              /\ checked_out' = done.checked_out
              /\ response' = IF done.raised
                             THEN Failure(500, "str(e)")
                             ELSE Success(frame.fallback, "fallback", CHAT_FALLBACK_NOTE)
              /\ pc' = "done"
    /\ UNCHANGED <<stores, connection_pool, environ, http, request, prompt, frame, calls,
                   served, fn, out>>

----------------------------------------------------------------------------
(* enhanced_chat (api/chat.py:125-183) *)

\* chat.py:130-140
EnhancedChat_Receive ==
    /\ pc = "handler"
    /\ request.handler = "enhanced_chat"
    /\ \E data \in ENHANCED_BODIES :
          /\ request' = [request EXCEPT !.data = data]
          /\ IF data = NONE
             THEN /\ response' = Failure(400, "No data provided")
                  /\ pc' = "done"
                  /\ UNCHANGED frame
             ELSE IF data.question = NONE \/ TextLen(data.question) = 0
             THEN /\ response' = Failure(400, "Question is required")
                  /\ pc' = "done"
                  /\ UNCHANGED frame
             ELSE /\ frame' = Frame(sanitize_input(data.question, SANITIZE_MAX_LENGTH),
                                    "")
                  /\ pc' = "fine_tuned"
                  /\ UNCHANGED response
    /\ UNCHANGED <<stores, connection_pool, environ, http, checked_out, user_interactions,
                   prompt, calls, logs, served, fn, out>>

\* chat.py:143-150: the fine-tuned model is tried first
EnhancedChat_FineTuned ==
    /\ pc = "fine_tuned"
    /\ \E outcome \in OLLAMA_OUTCOMES :
          /\ calls' = Append(calls, [model |-> FINE_TUNED_MODEL, outcome |-> outcome,
                                     content |-> IF outcome = "content" THEN "text"
                                                 ELSE ""])
          /\ IF outcome = "content"
             THEN /\ frame' = [frame EXCEPT !.ai_response = MODEL_TEXT,
                                            !.model_used = FINE_TUNED_MODEL]
                  /\ pc' = "enhanced_log"
             ELSE /\ pc' = "base_model"
                  /\ UNCHANGED frame
    /\ UNCHANGED <<stores, connection_pool, environ, http, checked_out, user_interactions,
                   request, prompt, logs, response, served, fn, out>>

\* chat.py:150-157 and 181-183: the base model is called when the fine-tuned
\* model failed; what this call raises reaches the handler's outer except
EnhancedChat_BaseModel ==
    /\ pc = "base_model"
    /\ \E outcome \in OLLAMA_OUTCOMES :
          /\ calls' = Append(calls, [model |-> OLLAMA_MODEL, outcome |-> outcome,
                                     content |-> IF outcome = "content" THEN "text"
                                                 ELSE ""])
          /\ IF outcome = "content"
             THEN /\ frame' = [frame EXCEPT !.ai_response = MODEL_TEXT,
                                            !.model_used = OLLAMA_MODEL]
                  /\ pc' = "enhanced_log"
                  /\ UNCHANGED response
             ELSE /\ response' = Failure(500, "str(e)")
                  /\ pc' = "done"
                  /\ UNCHANGED frame
    /\ UNCHANGED <<stores, connection_pool, environ, http, checked_out, user_interactions,
                   request, prompt, logs, served, fn, out>>

\* chat.py:159-183
EnhancedChat_Log ==
    /\ pc = "enhanced_log"
    /\ \E outcome \in LogOutcomes :
          LET done == log_user_interaction(
                          outcome,
                          Row("enhanced_chat", frame.ai_response, frame.model_used))
          IN  /\ logs' = Append(logs, outcome)
              /\ user_interactions' = done.rows
              /\ checked_out' = done.checked_out
              /\ response' = IF done.raised
                             THEN Failure(500, "str(e)")
                             ELSE Success(frame.ai_response, frame.model_used, "")
              /\ pc' = "done"
    /\ UNCHANGED <<stores, connection_pool, environ, http, request, prompt, frame, calls,
                   served, fn, out>>

----------------------------------------------------------------------------
(* generate_analysis (api/analysis.py:24-216) *)

\* analysis.py:29-131: the body is validated and the analysis prompt filled
GenerateAnalysis_Receive ==
    /\ pc = "handler"
    /\ request.handler = "generate_analysis"
    /\ \E data \in ANALYSIS_BODIES :
          /\ request' = [request EXCEPT !.data = data]
          /\ IF data = NONE
             THEN /\ response' = Failure(400, "No data provided")
                  /\ pc' = "done"
                  /\ UNCHANGED <<prompt, frame>>
             ELSE IF data.user_data = NONE
             THEN /\ response' = Failure(400, "User data is required")
                  /\ pc' = "done"
                  /\ UNCHANGED <<prompt, frame>>
             ELSE /\ prompt' = <<[part |-> "analysis_template",
                                  aggregates |-> AnalysisAggregates(data.user_data)]>>
                  /\ frame' = Frame(EMPTY_TEXT, "")
                  /\ pc' = "ollama"
                  /\ UNCHANGED response
    /\ UNCHANGED <<stores, connection_pool, environ, http, checked_out, user_interactions,
                   calls, logs, served, fn, out>>

\* analysis.py:134-156 and 180-191: the model call and json.loads of its reply;
\* a reply that is not well-formed JSON is replaced at line 149
GenerateAnalysis_Ollama ==
    /\ pc = "ollama"
    /\ request.handler = "generate_analysis"
    /\ \E outcome \in OLLAMA_OUTCOMES, content \in {"json", "not_json"} :
          /\ calls' = Append(calls, [model |-> OLLAMA_MODEL, outcome |-> outcome,
                                     content |-> IF outcome = "content" THEN content
                                                 ELSE ""])
          /\ IF outcome = "content"
             THEN /\ frame' = [frame EXCEPT
                                  !.ai_response = MODEL_TEXT,
                                  !.analysis = IF content = "json" THEN PARSED_ANALYSIS
                                               ELSE DEFAULT_ANALYSIS]
                  /\ pc' = "log"
             ELSE /\ frame' = [frame EXCEPT !.fallback = FALLBACK_ANALYSIS]
                  /\ pc' = "fallback_log"
    /\ UNCHANGED <<stores, connection_pool, environ, http, checked_out, user_interactions,
                   request, prompt, logs, response, served, fn, out>>

\* analysis.py:158-178, inside the try block of the model call
GenerateAnalysis_Log ==
    /\ pc = "log"
    /\ request.handler = "generate_analysis"
    /\ \E outcome \in LogOutcomes :
          LET done == log_user_interaction(
                          outcome,
                          Row("analysis_generation", frame.analysis, OLLAMA_MODEL))
          IN  /\ logs' = Append(logs, outcome)
              /\ user_interactions' = done.rows
              /\ checked_out' = done.checked_out
              /\ IF done.raised
                 THEN /\ frame' = [frame EXCEPT !.fallback = FALLBACK_ANALYSIS]
                      /\ pc' = "fallback_log"
                      /\ UNCHANGED response
                 ELSE /\ response' = Success(frame.analysis, OLLAMA_MODEL, "")
                      /\ pc' = "done"
                      /\ UNCHANGED frame
    /\ UNCHANGED <<stores, connection_pool, environ, http, request, prompt, calls, served, fn,
                   out>>

\* analysis.py:193-216
GenerateAnalysis_FallbackLog ==
    /\ pc = "fallback_log"
    /\ request.handler = "generate_analysis"
    /\ \E outcome \in LogOutcomes :
          LET done == log_user_interaction(
                          outcome,
                          Row("analysis_fallback", frame.fallback, "fallback"))
          IN  /\ logs' = Append(logs, outcome)
              /\ user_interactions' = done.rows
              /\ checked_out' = done.checked_out
              /\ response' = IF done.raised
                             THEN Failure(500, "str(e)")
                             ELSE Success(frame.fallback, "fallback",
                                          ANALYSIS_FALLBACK_NOTE)
              /\ pc' = "done"
    /\ UNCHANGED <<stores, connection_pool, environ, http, request, prompt, frame, calls,
                   served, fn, out>>

----------------------------------------------------------------------------
(* The service *)

\* the response has been returned; the worker takes the next request
NextRequest ==
    /\ pc = "done"
    /\ pc' = "idle"
    /\ served' = served + 1
    /\ request' = NONE
    /\ prompt' = <<>>
    /\ frame' = NONE
    /\ calls' = <<>>
    /\ logs' = <<>>
    /\ response' = NONE
    /\ http' = NONE
    /\ UNCHANGED <<stores, connection_pool, environ, checked_out, user_interactions, fn, out>>

\* app.py:165-174 and database.py:17-40: init_db leaves a pool, or None
Init ==
    /\ WorkerIdle
    /\ workers = <<>>
    /\ environ \in ENVIRONS
    /\ connection_pool \in {"None", "pool"}
    /\ fn = NONE
    /\ out = NONE

Next ==
    \/ BeforeRequest
    \/ RequireApiKey
    \/ HealthCheck
    \/ DetailedHealth
    \/ Status
    \/ StartupStatus
    \/ OllamaStatus
    \/ ChatMessage_Receive
    \/ ChatMessage_Ollama
    \/ ChatMessage_Log
    \/ ChatMessage_FallbackLog
    \/ EnhancedChat_Receive
    \/ EnhancedChat_FineTuned
    \/ EnhancedChat_BaseModel
    \/ EnhancedChat_Log
    \/ GenerateAnalysis_Receive
    \/ GenerateAnalysis_Ollama
    \/ GenerateAnalysis_Log
    \/ GenerateAnalysis_FallbackLog
    \/ NextRequest

Spec == Init /\ [][Next]_vars

----------------------------------------------------------------------------
(* AI settings (api/settings.py, models/settings.py) *)

\* the names given to settings; the first is the one get_active_settings uses
SETTING_NAMES == {"Default Settings", "Calm", "Brief"}

\* AISettings(name=...): the row the next INSERT adds; id is the serial key and
\* is_active defaults to true
NewSetting(name) ==
    [id |-> Len(ai_settings) + 1, name |-> name, is_active |-> TRUE]

\* the UNIQUE constraint on ai_settings.name, over all rows, active or not
NameTaken(name, except_id) ==
    \E i \in 1..Len(ai_settings) :
        ai_settings[i].name = name /\ ai_settings[i].id # except_id

SettingIds == 1..MaxSettings

\* settings.py:79-122
create_setting ==
    /\ \E name \in SETTING_NAMES \cup {""} :
          /\ request' = [handler |-> "create_setting", data |-> [name |-> name]]
          /\ IF name = ""
             THEN /\ response' = [status |-> 400, success |-> FALSE,
                                  error |-> "Name is required"]
                  /\ UNCHANGED ai_settings
             ELSE IF NameTaken(name, 0)
             THEN /\ response' = [status |-> 400, success |-> FALSE,
                                  error |-> "Setting with this name already exists"]
                  /\ UNCHANGED ai_settings
             ELSE /\ Len(ai_settings) < MaxSettings
                  /\ ai_settings' = Append(ai_settings, NewSetting(name))
                  /\ response' = [status |-> 200, success |-> TRUE,
                                  setting |-> NewSetting(name)]
    /\ UNCHANGED <<usage_vars, simple_vars, connection_pool, environ, http, checked_out,
                   user_interactions, pc, prompt, frame, calls, logs, served, fn, out>>

\* settings.py:124-149: get_or_404 raises inside the try block, so an unknown
\* id is answered by the except clause; a name another row holds fails the
\* commit and is rolled back
update_setting ==
    /\ \E setting_id \in SettingIds, name \in SETTING_NAMES \cup {""} :
          /\ request' = [handler |-> "update_setting", setting_id |-> setting_id,
                         data |-> [name |-> name]]
          /\ IF setting_id > Len(ai_settings)
             THEN /\ response' = [status |-> 500, success |-> FALSE, error |-> "404"]
                  /\ UNCHANGED ai_settings
             ELSE IF name # "" /\ NameTaken(name, setting_id)
             THEN /\ response' = [status |-> 500, success |-> FALSE,
                                  error |-> "IntegrityError"]
                  /\ UNCHANGED ai_settings
             ELSE LET setting == IF name = "" THEN ai_settings[setting_id]
                                 ELSE [ai_settings[setting_id] EXCEPT !.name = name]
                  IN  /\ ai_settings' = [ai_settings EXCEPT ![setting_id] = setting]
                      /\ response' = [status |-> 200, success |-> TRUE,
                                      setting |-> setting]
    /\ UNCHANGED <<usage_vars, simple_vars, connection_pool, environ, http, checked_out,
                   user_interactions, pc, prompt, frame, calls, logs, served, fn, out>>

\* settings.py:151-166: the row is kept, is_active is set to false
delete_setting ==
    /\ \E setting_id \in SettingIds :
          /\ request' = [handler |-> "delete_setting", setting_id |-> setting_id]
          /\ IF setting_id > Len(ai_settings)
             THEN /\ response' = [status |-> 500, success |-> FALSE, error |-> "404"]
                  /\ UNCHANGED ai_settings
             ELSE /\ ai_settings' = [ai_settings EXCEPT ![setting_id].is_active = FALSE]
                  /\ response' = [status |-> 200, success |-> TRUE,
                                  message |-> "Setting deleted successfully"]
    /\ UNCHANGED <<usage_vars, simple_vars, connection_pool, environ, http, checked_out,
                   user_interactions, pc, prompt, frame, calls, logs, served, fn, out>>

\* settings.py:388-410: filter_by(is_active=True).first() has no ORDER BY, so
\* any active row can be the one returned; without an active row a row named
\* 'Default Settings' is inserted, and the commit fails when a row of that name
\* exists
get_active_settings ==
    /\ request' = [handler |-> "get_active_settings"]
    /\ IF \E i \in 1..Len(ai_settings) : ai_settings[i].is_active
       THEN /\ \E i \in 1..Len(ai_settings) :
                  /\ ai_settings[i].is_active
                  /\ response' = [status |-> 200, success |-> TRUE,
                                  settings |-> ai_settings[i]]
            /\ UNCHANGED ai_settings
       ELSE IF NameTaken("Default Settings", 0)
       THEN /\ response' = [status |-> 500, success |-> FALSE,
                            error |-> "IntegrityError"]
            /\ UNCHANGED ai_settings
       ELSE /\ ai_settings' = Append(ai_settings, NewSetting("Default Settings"))
            /\ response' = [status |-> 200, success |-> TRUE,
                            settings |-> NewSetting("Default Settings")]
    /\ UNCHANGED <<usage_vars, simple_vars, connection_pool, environ, http, checked_out,
                   user_interactions, pc, prompt, frame, calls, logs, served, fn, out>>

InitSettings ==
    /\ ServiceStarted
    /\ connection_pool = "pool"
    /\ fn = NONE
    /\ out = NONE

NextSettings ==
    \/ create_setting
    \/ update_setting
    \/ delete_setting
    \/ get_active_settings

SpecSettings == InitSettings /\ [][NextSettings]_vars

----------------------------------------------------------------------------
(* Usage logging step by step (models/database.py:175-216, utils/auth.py) *)

\* the threads of the server
THREADS == 1..2

\* hashlib.sha256(api_key.encode()).hexdigest(): different keys, different
\* digests
Sha256(api_key) == [sha256 |-> api_key]

\* the routes whose key before_request verifies
VERIFIED_ROUTES == {route \in ROUTES : KeyVerified(route.endpoint, route.path)}

\* a thread with no request in hand
IdleThread == [pc |-> "idle"]

\* database.py:186-191: the committed rows the SELECT finds for the pair
Selected(api_key_hash, endpoint) ==
    {i \in 1..Len(api_usage) :
        api_usage[i].api_key_hash = api_key_hash /\ api_usage[i].endpoint = endpoint}

\* app.py:193-214 and auth.py:19-38: a request with a valid key arrives;
\* before_request calls verify_api_key, which calls log_api_usage; the
\* connection and the cursor are obtained
VerifiedRequest(w) ==
    /\ workers[w].pc = "idle"
    /\ Len(arrived) < MaxArrivals
    /\ \E route \in VERIFIED_ROUTES, api_key \in ValidKeys(environ.VALID_API_KEYS) :
          /\ workers' = [workers EXCEPT ![w] =
                            [pc |-> "select", caller |-> "before_request", result |-> 0,
                             view |-> route.view,
                             api_key_hash |-> Sha256(api_key),
                             endpoint |-> route.endpoint]]
          /\ arrived' = Append(arrived, [api_key_hash |-> Sha256(api_key),
                                         endpoint |-> route.endpoint,
                                         view |-> route.view])
    /\ UNCHANGED <<service_vars, ai_settings, simple_vars, api_usage, fn, out>>

\* database.py:186-191: SELECT and fetchone; the statement sees the rows
\* committed so far, and without ORDER BY any matching row can come first
LogApiUsage_Select(w) ==
    /\ workers[w].pc = "select"
    /\ LET found == Selected(workers[w].api_key_hash, workers[w].endpoint)
       IN  IF found = {}
           THEN workers' = [workers EXCEPT ![w].pc = "write", ![w].result = 0]
           ELSE \E i \in found :
                   workers' = [workers EXCEPT ![w].pc = "write", ![w].result = i]
    /\ UNCHANGED <<service_vars, ai_settings, simple_vars, api_usage, arrived, fn, out>>

\* database.py:193-205: UPDATE of the row found, which waits while another
\* transaction holds the row's lock, or INSERT of a new row
LogApiUsage_Write(w) ==
    /\ workers[w].pc = "write"
    /\ workers[w].result # 0 =>
          \A v \in DOMAIN workers \ {w} :
              ~(workers[v].pc = "commit" /\ workers[v].result = workers[w].result)
    /\ workers' = [workers EXCEPT ![w].pc = "commit"]
    /\ UNCHANGED <<service_vars, ai_settings, simple_vars, api_usage, arrived, fn, out>>

\* database.py:207 and 212-216: commit makes the write visible and the
\* connection is returned.  auth.py:38 returns True; a view wrapped in
\* @require_api_key (auth.py:43-50) verifies the key once more before it runs
LogApiUsage_Commit(w) ==
    /\ workers[w].pc = "commit"
    /\ api_usage' =
          IF workers[w].result # 0
          THEN [api_usage EXCEPT ![workers[w].result].request_count = @ + 1]
          ELSE Append(api_usage, [api_key_hash |-> workers[w].api_key_hash,
                                  endpoint |-> workers[w].endpoint,
                                  request_count |-> 1])
    /\ workers' =
          IF workers[w].caller = "before_request" /\ workers[w].view \in DECORATED
          THEN [workers EXCEPT ![w].pc = "select", ![w].caller = "require_api_key"]
          ELSE [workers EXCEPT ![w] = IdleThread]
    /\ UNCHANGED <<service_vars, ai_settings, simple_vars, arrived, fn, out>>

InitThreads(n) ==
    /\ connection_pool = "pool"
    /\ environ = [VALID_API_KEYS |-> <<>>]
    /\ WorkerIdle
    /\ workers = [w \in 1..n |-> IdleThread]
    /\ fn = NONE
    /\ out = NONE

NextUsage ==
    \E w \in DOMAIN workers :
        \/ VerifiedRequest(w)
        \/ LogApiUsage_Select(w)
        \/ LogApiUsage_Write(w)
        \/ LogApiUsage_Commit(w)

\* one thread: requests are handled one at a time
SpecUsageSerial == InitThreads(1) /\ [][NextUsage]_vars

\* the threaded server
SpecUsage == InitThreads(Cardinality(THREADS)) /\ [][NextUsage]_vars

----------------------------------------------------------------------------
(* The simplified chat app (simple_app.py) *)

\* simple_app.py:60: the text returned when the model call failed
APOLOGY ==
    "I'm sorry, but I'm currently unable to process your request. The AI service is temporarily unavailable. Please try again later."

\* request.get_json() of /api/chat: no body, or a body with a message
SIMPLE_BODIES ==
    {NONE}
    \cup {[message |-> m] : m \in {EMPTY_TEXT, Text(<<" ">>, 0), Text(<<"h","i">>, 0)}}

\* the entries stored so far, cleared ones included
StoredEver == {i \in 1..Len(events) : events[i].kind = "stored"}

Answer(w, event) ==
    /\ Len(events) < MaxEvents
    /\ events' = Append(events, event)
    /\ workers' = [workers EXCEPT ![w] = IdleThread]

\* simple_app.py:35-42: the body is read and the message stripped; a body that
\* is not an object ends in the outer except clause
SimpleChat_Receive(w) ==
    /\ workers[w].pc = "idle"
    /\ \E data \in SIMPLE_BODIES :
          IF data = NONE
          THEN /\ Answer(w, [kind |-> "failed", status |-> 500])
               /\ response' = [status |-> 500, success |-> FALSE,
                               error |-> "Chat failed"]
          ELSE IF TextLen(Strip(data.message)) = 0
          THEN /\ Answer(w, [kind |-> "rejected", status |-> 400])
               /\ response' = [status |-> 400, error |-> "Message is required"]
          ELSE /\ workers' = [workers EXCEPT ![w] =
                                 [pc |-> "ollama", user_message |-> Strip(data.message),
                                  ai_response |-> "", id |-> 0]]
               /\ UNCHANGED <<events, response>>
    /\ UNCHANGED <<connection_pool, environ, http, checked_out, user_interactions, pc,
                   request, prompt, frame, calls, logs, served, ai_settings, usage_rest,
                   conversation_history, fn, out>>

\* simple_app.py:48-59: the model call; the apology replaces a failed call
SimpleChat_Ollama(w) ==
    /\ workers[w].pc = "ollama"
    /\ \E outcome \in OLLAMA_OUTCOMES :
          workers' = [workers EXCEPT
                         ![w].pc = "store",
                         ![w].ai_response = IF outcome = "content" THEN MODEL_TEXT
                                            ELSE APOLOGY]
    /\ UNCHANGED <<service_vars, ai_settings, usage_rest, simple_vars, fn, out>>

\* a handler that keeps the apology out of the history
SimpleChat_Store_answers_only(w) ==
    /\ workers[w].pc = "store"
    /\ Len(events) < MaxEvents
    /\ LET id == Cardinality(StoredEver) + 1
       IN  /\ conversation_history' =
                 IF workers[w].ai_response = APOLOGY THEN conversation_history
                 ELSE Append(conversation_history,
                             [id |-> id, user_message |-> workers[w].user_message,
                              ai_response |-> workers[w].ai_response])
           /\ events' = Append(events, [kind |-> "stored", id |-> id])
           /\ workers' = [workers EXCEPT ![w].pc = "return", ![w].id = id]
    /\ UNCHANGED <<service_vars, ai_settings, usage_rest, fn, out>>

\* simple_app.py:62-69: the entry is appended to the list the global names
SimpleChat_Store(w) ==
    /\ workers[w].pc = "store"
    /\ Len(events) < MaxEvents
    /\ LET id == Cardinality(StoredEver) + 1
       IN  /\ conversation_history' =
                 Append(conversation_history,
                        [id |-> id, user_message |-> workers[w].user_message,
                         ai_response |-> workers[w].ai_response])
           /\ events' = Append(events, [kind |-> "stored", id |-> id])
           /\ workers' = [workers EXCEPT ![w].pc = "return", ![w].id = id]
    /\ UNCHANGED <<service_vars, ai_settings, usage_rest, fn, out>>

\* simple_app.py:71-75: the response is returned
SimpleChat_Return(w) ==
    /\ workers[w].pc = "return"
    /\ Answer(w, [kind |-> "returned", id |-> workers[w].id])
    /\ response' = [status |-> 200, success |-> TRUE,
                    response |-> workers[w].ai_response]
    /\ UNCHANGED <<connection_pool, environ, http, checked_out, user_interactions, pc,
                   request, prompt, frame, calls, logs, served, ai_settings, usage_rest,
                   conversation_history, fn, out>>

\* simple_app.py:85-91
get_history(w) ==
    /\ workers[w].pc = "idle"
    /\ Answer(w, [kind |-> "history", count |-> Len(conversation_history)])
    /\ response' = [status |-> 200, success |-> TRUE, history |-> conversation_history]
    /\ UNCHANGED <<connection_pool, environ, http, checked_out, user_interactions, pc,
                   request, prompt, frame, calls, logs, served, ai_settings, usage_rest,
                   conversation_history, fn, out>>

\* simple_app.py:93-98: the global is bound to a new empty list
clear_history(w) ==
    /\ workers[w].pc = "idle"
    /\ Answer(w, [kind |-> "cleared"])
    /\ conversation_history' = <<>>
    /\ response' = [status |-> 200, success |-> TRUE, message |-> "History cleared"]
    /\ UNCHANGED <<connection_pool, environ, http, checked_out, user_interactions, pc,
                   request, prompt, frame, calls, logs, served, ai_settings, usage_rest,
                   fn, out>>

\* simple_app.py:103-106: ollama.list() answers or raises
SimpleStatus_List(w) ==
    /\ workers[w].pc = "idle"
    /\ \E listed \in BOOLEAN :
          workers' = [workers EXCEPT ![w] = [pc |-> "status", listed |-> listed]]
    /\ UNCHANGED <<service_vars, ai_settings, usage_rest, simple_vars, fn, out>>

\* simple_app.py:108-126: the length of the history is read and reported
SimpleStatus_Return(w) ==
    /\ workers[w].pc = "status"
    /\ Answer(w, [kind |-> "status", conversation_count |-> Len(conversation_history)])
    /\ response' = [status |-> 200, success |-> TRUE,
                    body |-> IF workers[w].listed THEN "healthy" ELSE "degraded",
                    conversation_count |-> Len(conversation_history)]
    /\ UNCHANGED <<connection_pool, environ, http, checked_out, user_interactions, pc,
                   request, prompt, frame, calls, logs, served, ai_settings, usage_rest,
                   conversation_history, fn, out>>

NextSimple ==
    \E w \in DOMAIN workers :
        \/ SimpleChat_Receive(w)
        \/ SimpleChat_Ollama(w)
        \/ SimpleChat_Store(w)
        \/ SimpleChat_Return(w)
        \/ get_history(w)
        \/ clear_history(w)
        \/ SimpleStatus_List(w)
        \/ SimpleStatus_Return(w)

SpecSimple == InitThreads(Cardinality(THREADS)) /\ [][NextSimple]_vars

\* texts to sanitize: letters, blanks and dangerous characters, with or
\* without a tail of other characters
SANITIZE_TEXTS ==
    {Text(chars, pad) : chars \in SeqsUpTo({"a", " ", "\t", "<", ";"}, MaxChars),
                        pad \in {0, 2}}

InitSanitize ==
    /\ ServiceStarted
    /\ connection_pool = "pool"
    /\ fn \in {[text |-> text, max_length |-> max_length] :
                 text \in SANITIZE_TEXTS, max_length \in 0..MaxLength}
    /\ out = NONE

\* the text is sanitized, and the result sanitized again
SanitizeInput ==
    /\ out = NONE
    /\ LET once == sanitize_input(fn.text, fn.max_length)
       IN  out' = [once |-> once, twice |-> sanitize_input(once, fn.max_length)]
    /\ UNCHANGED <<service_vars, stores, fn>>

SpecSanitize == InitSanitize /\ [][SanitizeInput]_vars

----------------------------------------------------------------------------
(* Login (api/auth.py, models/user.py) *)

\* werkzeug's generate_password_hash, kept apart from the password it hashes
PasswordHash(password) == [hash_of |-> password]

\* user.py:13-26: rows of the user table, the columns as Python prints them;
\* is_admin may be NULL in a table the service did not create
USERS ==
    {[id |-> 1, username |-> "alice", password_hash |-> PasswordHash("pw-a"),
      is_admin |-> "True"],
     [id |-> 2, username |-> "bob", password_hash |-> PasswordHash("pw-b"),
      is_admin |-> "False"],
     [id |-> 3, username |-> "carol", password_hash |-> PasswordHash("pw-c"),
      is_admin |-> "None"]}

\* user.py:36-37
check_password(user, password) == user.password_hash = PasswordHash(password)

\* auth.py:20: the JSON or form body of POST /auth/login; a key that is absent
\* reads as None, and the JSON body null as no body at all
LOGIN_BODIES ==
    {NONE}
    \cup {[username |-> u, password |-> p] :
            u \in {"None", "", "alice", "bob", "carol", "dave"},
            p \in {"None", "", "pw-a", "pw-b", "pw-c"}}

\* Python's `not value` for a column or a body entry
Falsy(value) == value \in {"None", "False", ""}

\* auth.py:19-39: the response, and the id of the user login_user was called
\* with, 0 when it was not called; what
\* data.get raises on a body that is not an object is answered by the error
\* handler (app.py:411-417)
login(data) ==
    IF data = NONE THEN [response |-> InternalError, user |-> 0]
    ELSE IF Falsy(data.username) \/ Falsy(data.password)
    THEN [response |-> [status |-> 400, success |-> FALSE,
                        error |-> "Username and password are required"],
          user |-> 0]
    ELSE LET found == {u \in fn.users : u.username = data.username}
         IN  IF found # {} /\ check_password(CHOOSE u \in found : TRUE, data.password)
             THEN IF Falsy((CHOOSE u \in found : TRUE).is_admin)
                  THEN [response |->
                            [status |-> 403, success |-> FALSE,
                             error |-> "Access denied. Admin privileges required."],
                        user |-> 0]
                  ELSE [response |-> [status |-> 200, success |-> TRUE,
                                      redirect |-> "/"],
                        user |-> (CHOOSE u \in found : TRUE).id]
             ELSE [response |-> [status |-> 401, success |-> FALSE,
                                 error |-> "Invalid username or password"],
                   user |-> 0]

\* the user table holds any of the rows; the client has no session
InitLogin ==
    /\ ServiceStarted
    /\ connection_pool = "pool"
    /\ fn \in {[users |-> users] : users \in SUBSET USERS}
    /\ out = NONE

\* POST /auth/login: login_user puts the user's id in the client's session
Login ==
    /\ \E data \in LOGIN_BODIES :
          LET done == login(data)
              before == IF out = NONE THEN NONE ELSE out.session
          IN  out' = [data |-> data, response |-> done.response, before |-> before,
                      session |-> IF done.user = 0 THEN before
                                  ELSE [user_id |-> done.user]]
    /\ UNCHANGED <<service_vars, stores, fn>>

SpecLogin == InitLogin /\ [][Login]_vars

----------------------------------------------------------------------------
(* Properties *)

Done == pc = "done"

\* the request passed validation and reached the model call
Validated == frame # NONE

ChatOrAnalysis == request.handler \in {"chat_message", "generate_analysis"}

FirstCallFailed == calls # <<>> /\ calls[1].outcome # "content"

FirstCallAnswered == calls # <<>> /\ calls[1].outcome = "content"

\* the rows written while handling the current request
RowsOfRequest ==
    {i \in 1..Len(user_interactions) : user_interactions[i].request_no = served + 1}

FALLBACK_BODIES == FALLBACK_TABLE \cup {FALLBACK_ANALYSIS}

\* C1: when ollama.chat raises, or its reply lacks message/content, a validated
\* chat_message or generate_analysis request is answered 200 with success,
\* model_used = 'fallback', the fallback note and a non-empty canned body.
C1_BackendFailureAnsweredByFallback ==
    (Done /\ ChatOrAnalysis /\ Validated /\ FirstCallFailed)
    => /\ response.status = 200
       /\ response.success
       /\ response.model_used = "fallback"
       /\ response.note \in {CHAT_FALLBACK_NOTE, ANALYSIS_FALLBACK_NOTE}
       /\ response.body \in FALLBACK_BODIES
       /\ response.body # ""

\* C2: the response of chat_message and generate_analysis does not depend on
\* how log_user_interaction went: when a logging call failed, a reply obtained
\* from the model is still returned as the model's, and a fallback is still
\* returned with 200.
C2_ResponseIndependentOfLogging ==
    (Done /\ ChatOrAnalysis /\ Validated /\ \E i \in 1..Len(logs) : logs[i] # "ok")
    => /\ FirstCallAnswered =>
             response = Success(IF request.handler = "chat_message"
                                THEN frame.ai_response ELSE frame.analysis,
                                OLLAMA_MODEL, "")
       /\ FirstCallFailed =>
             /\ response.status = 200
             /\ response.model_used = "fallback"
             /\ response.body \in FALLBACK_BODIES

\* C3: the prompt _create_optimized_prompt returns is at most 1000 characters
\* long, for every sanitized message, context and context_type.
C3_PromptWithinBudget ==
    out # NONE => PromptLen(out.prompt) <= PROMPT_BUDGET

PartsOf(p) == [i \in 1..Len(p) |-> p[i].part]

\* C4: an assembled prompt longer than 1000 characters is replaced as a whole
\* by role framing, the question as asked and the instructions, with no
\* 'Relevant Data' and no 'Available Resources' part; an assembled prompt of at
\* most 1000 characters is returned unchanged.
C4_HardCutover ==
    out # NONE
    => LET assembled == AssembledPrompt(fn.message, fn.context, fn.context_type)
       IN  IF PromptLen(assembled) > PROMPT_BUDGET
           THEN /\ PartsOf(out.prompt) = <<"framing", "question", "instructions">>
                /\ out.prompt[1] = assembled[1]
                /\ out.prompt[2].message = fn.message
                /\ out.prompt[3].len = INSTRUCTIONS_LEN
           ELSE out.prompt = assembled

\* a prompt one character over the budget, with a 'Relevant Data' part, was
\* replaced by the minimal template
C4_OversizedReplaced ==
    /\ out # NONE
    /\ LET assembled == AssembledPrompt(fn.message, fn.context, fn.context_type)
       IN  /\ PromptLen(assembled) = PROMPT_BUDGET + 1
           /\ \E i \in 1..Len(assembled) : assembled[i].part = "relevant_data"
    /\ \A i \in 1..Len(out.prompt) : out.prompt[i].part \notin {"relevant_data", "resources"}

\* C5: with the database accepting writes, a chat_message, enhanced_chat or
\* generate_analysis request in which ollama.chat was called leaves exactly one
\* row in user_interactions.
C5_ExactlyOneRowPerRequest ==
    (Done /\ request.handler \in {"chat_message", "enhanced_chat", "generate_analysis"}
          /\ calls # <<>> /\ connection_pool = "pool"
          /\ \A i \in 1..Len(logs) : logs[i] = "ok")
    => Cardinality(RowsOfRequest) = 1

\* C6 as stated: no handler calls the model backend more than once for one
\* request.
C6_AtMostOneCall == Len(calls) <= 1

\* C6, amended: chat_message and generate_analysis call the backend at most
\* once; enhanced_chat calls it at most twice, the second time only after the
\* fine-tuned model failed, and then the base model.
C6_CallsBounded ==
    /\ (request # NONE /\ ChatOrAnalysis) => Len(calls) <= 1
    /\ Len(calls) <= 2
    /\ Len(calls) = 2
       => /\ request.handler = "enhanced_chat"
          /\ calls[1].model = FINE_TUNED_MODEL
          /\ calls[1].outcome # "content"
          /\ calls[2].model = OLLAMA_MODEL

\* enhanced_chat answered from the base model after the fine-tuned model failed
C6_BaseModelAfterFailure ==
    /\ Done
    /\ request.handler = "enhanced_chat"
    /\ Len(calls) = 2
    /\ calls[1].outcome = "raises"
    /\ response.status = 200

RowsMatchResponse ==
    \A i \in RowsOfRequest :
        /\ user_interactions[i].model_used = response.model_used
        /\ user_interactions[i].response_data = response.body

\* C7 as stated: a canned body (the backend failed, or its text was not JSON)
\* comes with 200, model_used = 'fallback', the note and a row recording
\* 'fallback'; model_used names the real model only for a body from the model.
C7_CannedBodyTaggedFallback ==
    (Done /\ ChatOrAnalysis /\ response.success)
    => /\ response.body \in FALLBACK_BODIES \cup {DEFAULT_ANALYSIS}
          => /\ response.status = 200
             /\ response.model_used = "fallback"
             /\ response.note # ""
             /\ \A i \in RowsOfRequest : user_interactions[i].model_used = "fallback"
       /\ response.model_used = OLLAMA_MODEL
          => response.body \in {MODEL_TEXT, PARSED_ANALYSIS}

\* C7, amended: in a 200 answer of chat_message or generate_analysis the
\* fallback body, model_used = 'fallback' and the fallback note come together,
\* and the row written for the request records the response's model_used and
\* body; a reply that is not JSON gives the 'Data Analysis' default under the
\* real model's name and without note.
C7_FallbackTagFollowsBranch ==
    (Done /\ ChatOrAnalysis /\ response.success)
    => /\ response.status = 200
       /\ response.body \in FALLBACK_BODIES <=> response.model_used = "fallback"
       /\ response.model_used = "fallback"
          <=> response.note \in {CHAT_FALLBACK_NOTE, ANALYSIS_FALLBACK_NOTE}
       /\ response.model_used # "fallback"
          => /\ response.model_used = OLLAMA_MODEL
             /\ response.note = ""
             /\ response.body = IF request.handler = "chat_message" THEN MODEL_TEXT
                                ELSE IF calls[1].content = "json" THEN PARSED_ANALYSIS
                                ELSE DEFAULT_ANALYSIS
       /\ RowsMatchResponse

\* the default analysis returned under the real model's name, and logged so
C7_DefaultAnalysisUnderModelName ==
    /\ Done
    /\ request.handler = "generate_analysis"
    /\ response.success
    /\ response.body = DEFAULT_ANALYSIS
    /\ response.model_used = OLLAMA_MODEL
    /\ RowsOfRequest # {}

\* C8: generate_analysis answers a reply that is not well-formed JSON with 200
\* and the default analysis, and a well-formed one with the parsed value.
C8_ReplyParsedOrDefault ==
    (Done /\ request.handler = "generate_analysis" /\ FirstCallAnswered)
    => /\ response.status = 200
       /\ response.body = IF calls[1].content = "json" THEN PARSED_ANALYSIS
                          ELSE DEFAULT_ANALYSIS

\* C9: a fallback answer of chat_message to a message _determine_topic
\* classifies as 'hydration' is the hydration entry of the fallback table.
C9_HydrationTopicGetsHydrationEntry ==
    (Done /\ request.handler = "chat_message" /\ Validated
          /\ response.model_used = "fallback"
          /\ _determine_topic(frame.message) = "hydration")
    => response.body = FALLBACK_HYDRATION

\* the order in which the claim has the keyword lists tried
TOPIC_ORDER ==
    <<[topic |-> "nutrition", keywords |-> NUTRITION_KEYWORDS],
      [topic |-> "mood", keywords |-> MOOD_KEYWORDS],
      [topic |-> "hydration", keywords |-> HYDRATION_KEYWORDS],
      [topic |-> "exercise", keywords |-> EXERCISE_KEYWORDS],
      [topic |-> "wellness", keywords |-> WELLNESS_KEYWORDS]>>

\* the lists of TOPIC_ORDER with a keyword occurring in the text
Hits(text) == {k \in 1..Len(TOPIC_ORDER) : AnyIn(TOPIC_ORDER[k].keywords, text)}

\* C10: _determine_topic returns one of the six topics; whatever the case the
\* message is typed in, it is the first topic of the order nutrition, mood,
\* hydration, exercise, wellness with a keyword occurring in the lower-cased
\* text, and 'general' exactly when no list has one.
C10_FirstMatchingTopic ==
    out # NONE
    => LET hits == Hits(lower(fn.message))
       IN  /\ out.topic \in TOPICS
           /\ out.topic = "general" <=> hits = {}
           /\ hits # {}
              => out.topic = TOPIC_ORDER[CHOOSE k \in hits : \A j \in hits : k <= j].topic

\* a message with a nutrition keyword and a mood keyword, typed in mixed case,
\* classified as nutrition
C10_NutritionBeforeMood ==
    /\ out # NONE
    /\ out.typed = "typed"
    /\ fn.message # lower(fn.message)
    /\ {1, 2} \subseteq Hits(lower(fn.message))
    /\ out.topic = "nutrition"

\* twice the difference mean(second part) - mean(first part), times the
\* positive product of the two lengths, for the split after floor(n/2) entries
TwiceScaledDelta(mood_logs) ==
    LET k == Len(mood_logs) \div 2
        n == Len(mood_logs)
    IN  2 * (SumOf(Suffix(mood_logs, k), "mood", 3) * k
             - SumOf(Prefix(mood_logs, k), "mood", 3) * (n - k))

ScaledOne(mood_logs) ==
    (Len(mood_logs) \div 2) * (Len(mood_logs) - Len(mood_logs) \div 2)

Summarised == out # NONE /\ out.by = "get_user_summary"

Aggregated == out # NONE /\ out.by = "generate_analysis"

IsZero(a) == a.den > 0 /\ a.num = 0

\* the three averages of a summary response, and of the aggregate step
SummaryAverages ==
    <<out.response.summary.food_summary.avg_calories,
      out.response.summary.mood_summary.avg_mood,
      out.response.summary.water_summary.avg_daily_water>>

AggregateAverages ==
    <<out.aggregates.avg_calories, out.aggregates.avg_mood, out.aggregates.avg_water>>

\* C12 as stated: for every combination of collections, entries with missing
\* fields included, the summary computations end without error and without a
\* division by zero, and each average over an empty collection is 0.
C12_EmptyAveragesZero ==
    /\ Summarised
       => /\ out.response.status = 200
          /\ \A i \in 1..3 : SummaryAverages[i].den > 0
          /\ fn.user_data.food_logs = <<>> => IsZero(SummaryAverages[1])
          /\ fn.user_data.mood_logs = <<>> => IsZero(SummaryAverages[2])
          /\ fn.user_data.water_logs = <<>> => IsZero(SummaryAverages[3])
    /\ Aggregated
       => /\ \A i \in 1..3 : AggregateAverages[i].den > 0
          /\ fn.user_data.food_logs = <<>> => IsZero(AggregateAverages[1])
          /\ fn.user_data.mood_logs = <<>> => IsZero(AggregateAverages[2])
          /\ fn.user_data.water_logs = <<>> => IsZero(AggregateAverages[3])

\* C12, amended: the summary computations end without error and without a
\* division by zero; an average over an empty collection is 0, except the
\* average mood of the aggregate step of generate_analysis, which is 3.
C12_EmptyAveragesNeutral ==
    /\ Summarised
       => /\ out.response.status = 200
          /\ out.response.success
          /\ \A i \in 1..3 : SummaryAverages[i].den > 0
          /\ fn.user_data.food_logs = <<>> => IsZero(SummaryAverages[1])
          /\ fn.user_data.mood_logs = <<>> => IsZero(SummaryAverages[2])
          /\ fn.user_data.water_logs = <<>> => IsZero(SummaryAverages[3])
    /\ Aggregated
       => /\ \A i \in 1..3 : AggregateAverages[i].den > 0
          /\ fn.user_data.food_logs = <<>> => IsZero(AggregateAverages[1])
          /\ fn.user_data.mood_logs = <<>> => RatEq(AggregateAverages[2], Rat(3, 1))
          /\ fn.user_data.water_logs = <<>> => IsZero(AggregateAverages[3])

\* the aggregate step ran on empty collections and gave the average mood 3
C12_NoMoodsAverageThree ==
    /\ Aggregated
    /\ fn.user_data.food_logs = <<>>
    /\ fn.user_data.mood_logs = <<>>
    /\ fn.user_data.water_logs = <<>>
    /\ RatEq(out.aggregates.avg_mood, Rat(3, 1))
    /\ IsZero(out.aggregates.avg_calories)

\* the list `recent` has at most `cap` items, and item i is built from the
\* i-th entry of the trailing slice of `entries`
TrailingSlice(recent, entries, cap, Same(_, _)) ==
    /\ Len(recent) <= cap
    /\ Len(recent) = Min(cap, Len(entries))
    /\ \A i \in 1..Len(recent) :
          Same(recent[i], entries[Len(entries) - Len(recent) + i])

SameMeal(item, log) ==
    /\ item.name = Get(log, "name", "Unknown")
    /\ item.calories = Get(log, "calories", 0)
    /\ item.date = Get(log, "date", "")
    /\ item.time_of_day = Get(log, "time_of_day", "snack")

SameMood(item, log) ==
    item.mood = Get(log, "mood", 3) /\ item.date = Get(log, "date", "")

SameWater(item, log) ==
    item.amount = Get(log, "amount", 0) /\ item.date = Get(log, "date", "")

SameFood(item, log) ==
    /\ item.name = Get(log, "name", "Unknown")
    /\ item.time_of_day = Get(log, "time_of_day", "snack")

SameMoodValue(item, log) == item = Get(log, "mood", NONE)

\* the snippet is the note's content, or its first 80 characters and '...'
SameNote(item, note) ==
    LET content == IF "content" \in DOMAIN note /\ note.content # NONE
                   THEN note.content ELSE EMPTY_TEXT
    IN  /\ TextLen(item.text) <= 80
        /\ TextLen(item.text) + Len(item.ellipsis) <= 80 + Len("...")
        /\ item.text = Truncate(content, 80)
        /\ item.ellipsis = IF TextLen(content) > 80 THEN "..." ELSE ""

\* C13: get_user_summary returns at most 5 recent meals, moods and water
\* entries; the analysis prompt gets at most 3 recent foods, 2 recent moods and
\* 2 note snippets of at most 80 characters plus '...'; each list is the
\* trailing slice of its input, in the input's order.
C13_RecentListsCapped ==
    /\ Summarised
       => LET summary == out.response.summary
          IN  /\ TrailingSlice(summary.food_summary.recent_meals,
                               fn.user_data.food_logs, 5, SameMeal)
              /\ TrailingSlice(summary.mood_summary.recent_moods,
                               fn.user_data.mood_logs, 5, SameMood)
              /\ TrailingSlice(summary.water_summary.recent_water,
                               fn.user_data.water_logs, 5, SameWater)
    /\ Aggregated
       => /\ TrailingSlice(out.aggregates.recent_foods_list,
                           fn.user_data.food_logs, 3, SameFood)
          /\ TrailingSlice(out.aggregates.recent_moods_list,
                           fn.user_data.mood_logs, 2, SameMoodValue)
          /\ TrailingSlice(out.aggregates.recent_notes_list,
                           fn.user_data.notes, 2, SameNote)

\* a food log longer than the cap was summarised with 5 recent meals
C13_LongLogFiveRecent ==
    /\ Summarised
    /\ Len(fn.user_data.food_logs) > 5
    /\ Len(out.response.summary.food_summary.recent_meals) = 5
    /\ fn.user_data.food_logs[1] # fn.user_data.food_logs[Len(fn.user_data.food_logs)]

\* the mean of entries' values of a field, read with its default
MeanOf(entries, key, default) == Rat(SumOf(entries, key, default), Len(entries))

\* C20 as stated: for a non-empty collection each average of get_user_summary
\* is the sum of the values divided by the number of entries, and
\* total_entries is the number of entries.
C20_AveragesAreMeans ==
    Summarised
    => LET summary == out.response.summary
           data == fn.user_data
       IN  /\ summary.food_summary.total_entries = Len(data.food_logs)
           /\ summary.mood_summary.total_entries = Len(data.mood_logs)
           /\ summary.water_summary.total_entries = Len(data.water_logs)
           /\ data.food_logs # <<>>
              => RatEq(summary.food_summary.avg_calories,
                       MeanOf(data.food_logs, "calories", 0))
           /\ data.mood_logs # <<>>
              => RatEq(summary.mood_summary.avg_mood, MeanOf(data.mood_logs, "mood", 3))
           /\ data.water_logs # <<>>
              => RatEq(summary.water_summary.avg_daily_water,
                       MeanOf(data.water_logs, "amount", 0))

\* C20, amended: avg_calories and avg_mood are the means over the entries (a
\* missing calories field counting 0, a missing mood 3); avg_daily_water is
\* the total amount divided by 7, whatever the number of entries;
\* total_entries is the number of entries.
C20_MeansAndDailyWater ==
    Summarised
    => LET summary == out.response.summary
           data == fn.user_data
       IN  /\ summary.food_summary.total_entries = Len(data.food_logs)
           /\ summary.mood_summary.total_entries = Len(data.mood_logs)
           /\ summary.water_summary.total_entries = Len(data.water_logs)
           /\ data.food_logs # <<>>
              => RatEq(summary.food_summary.avg_calories,
                       MeanOf(data.food_logs, "calories", 0))
           /\ data.mood_logs # <<>>
              => RatEq(summary.mood_summary.avg_mood, MeanOf(data.mood_logs, "mood", 3))
           /\ data.water_logs # <<>>
              => /\ RatEq(summary.water_summary.avg_daily_water,
                          Rat(SumOf(data.water_logs, "amount", 0), 7))
                 /\ summary.water_summary.total_water
                       = SumOf(data.water_logs, "amount", 0)

\* two water entries of 2 cups were summarised as 4/7 cups a day
C20_TwoEntriesOverSevenDays ==
    /\ Summarised
    /\ fn.user_data.water_logs = <<[amount |-> 2, date |-> "2024-01-01"],
                                   [amount |-> 2, date |-> "2024-01-01"]>>
    /\ RatEq(out.response.summary.water_summary.avg_daily_water, Rat(4, 7))

BlogTopics == DOMAIN MEDIUM_BLOG_RESOURCES

\* the resources lie in two blocks: `blog` entries first, then the first
\* authoritative entry of the topic if the topic has any
BlogThenAuthoritative(resources, blog, topic) ==
    /\ Len(resources) <= 3
    /\ Len(blog) <= 2
    /\ resources
          = blog \o (IF topic \in DOMAIN AUTHORITATIVE_SOURCES
                     THEN <<AUTHORITATIVE_SOURCES[topic][1]>> ELSE <<>>)

\* C14 as stated: at most 3 entries, at most 2 blog entries first, then the
\* authoritative entry iff the topic has one; the blog entries are the first two
\* of the topic's own list when it has one, otherwise those of 'general'.
C14_TopicOrGeneral ==
    out # NONE
    => \E n \in 1..2 :
          BlogThenAuthoritative(
             out.resources,
             IF fn.topic \in BlogTopics
             THEN Prefix(MEDIUM_BLOG_RESOURCES[fn.topic], 2)
             ELSE Prefix(MEDIUM_BLOG_RESOURCES["general"], n),
             fn.topic)

\* C14, amended: at most 3 entries, at most 2 blog entries first, then the first
\* authoritative entry iff the topic has one; the blog entries are the first two
\* of the topic's list when it has one, else the first two of the list named by
\* question_type when that names one, else the first entry of 'general'.
C14_TopicQuestionTypeOrGeneral ==
    out # NONE
    => BlogThenAuthoritative(
          out.resources,
          IF fn.topic \in BlogTopics
          THEN Prefix(MEDIUM_BLOG_RESOURCES[fn.topic], 2)
          ELSE IF fn.question_type \in BlogTopics
          THEN Prefix(MEDIUM_BLOG_RESOURCES[fn.question_type], 2)
          ELSE Prefix(MEDIUM_BLOG_RESOURCES["general"], 1),
          fn.topic)

\* an exercise topic asked with question type 'mood' got the mood blog entries
\* and the exercise source
C14_ExerciseWithMoodBlog ==
    /\ out # NONE
    /\ fn.topic = "exercise"
    /\ fn.question_type = "mood"
    /\ Len(out.resources) = 3
    /\ out.resources[1] = MEDIUM_BLOG_RESOURCES["mood"][1]
    /\ out.resources[3] = AUTHORITATIVE_SOURCES["exercise"][1]

\* the context type whose aggregates belong to a topic
TOPIC_CONTEXT_TYPE == [nutrition |-> "food", mood |-> "mood", hydration |-> "water"]

HasRelevantData(p) == \E i \in 1..Len(p) : p[i].part = "relevant_data"

\* C15: the prompt has a 'Relevant Data' line only when the topic
\* _determine_topic gives the message matches the type of the context supplied:
\* food aggregates for nutrition, mood aggregates for mood, water aggregates for
\* hydration.
C15_RelevantDataMatchesTopic ==
    (out # NONE /\ HasRelevantData(out.prompt))
    => LET topic == _determine_topic(fn.message)
       IN  /\ topic \in DOMAIN TOPIC_CONTEXT_TYPE
           /\ fn.context_type = TOPIC_CONTEXT_TYPE[topic]

\* ---- C16 ----
\* C16: every operation that takes a connection from the pool puts it back on
\* every exit path, so whenever the worker is between requests no connection
\* is checked out
C16_NoConnectionLeftCheckedOut ==
    pc = "idle" => checked_out = 0

\* the views that answer in the model once their body has been read
HANDLERS == {"chat_message", "enhanced_chat", "generate_analysis"}

\* the body the view read lacks a field the view requires
LacksRequiredField ==
    /\ request # NONE
    /\ request.handler \in HANDLERS
    /\ request.data # UNREAD
    /\ \/ request.data = NONE
       \/ /\ request.handler = "chat_message"
          /\ request.data # NONE
          /\ (request.data.message = NONE \/ request.data.message = EMPTY_TEXT)
       \/ /\ request.handler = "enhanced_chat"
          /\ request.data # NONE
          /\ (request.data.question = NONE \/ request.data.question = EMPTY_TEXT)
       \/ /\ request.handler = "generate_analysis"
          /\ request.data # NONE
          /\ request.data.user_data = NONE

ConfiguredKeys ==
    LET items == Split(environ.VALID_API_KEYS, ",")
    IN  {RStrip(LStrip(items[i])) : i \in 1..Len(items)} \ {<<>>}

\* the keys accepted: the configured ones, or the development key when none is
\* configured
AcceptedKeys ==
    IF ConfiguredKeys = {} THEN {DEFAULT_API_KEY} ELSE ConfiguredKeys

\* the request in hand is for an /api/ endpoint other than the health endpoints
ProtectedRequest ==
    /\ http # NONE
    /\ StartsWith(http.path, <<"/","a","p","i","/">>)
    /\ ~StartsWith(http.path, <<"/","a","p","i","/","h","e","a","l","t","h","/">>)

\* the request in hand is for /health or /api/health/*
HealthRequest ==
    /\ http # NONE
    /\ \/ http.path = <<"/","h","e","a","l","t","h">>
       \/ StartsWith(http.path, <<"/","a","p","i","/","h","e","a","l","t","h","/">>)

\* the request in hand was answered 401 without its view running
RejectedUnrun ==
    /\ pc = "done"
    /\ response.status = 401
    /\ request.data = UNREAD
    /\ calls = <<>>
    /\ logs = <<>>
    /\ RowsOfRequest = {}

\* a health request is not answered 401 or 500 by the access check
HealthServedWithoutKey ==
    (HealthRequest /\ pc = "done") => response.status = 200

\* ---- C19 ----
\* C19 as stated: a request to a protected /api/ endpoint without a key, or with
\* a key that VALID_API_KEYS does not name, is answered 401 and its view is not
\* run; the health endpoints are served without a key
C19_UnconfiguredKeyRejected ==
    /\ (ProtectedRequest /\ http.api_key \notin ConfiguredKeys) => RejectedUnrun
    /\ HealthServedWithoutKey

\* C19: a request to a protected /api/ endpoint without a key, or with a key
\* that is neither named by VALID_API_KEYS nor, when VALID_API_KEYS names none,
\* the development key, is answered 401 and its view is not run; the health
\* endpoints are served without a key
C19_UnacceptedKeyRejected ==
    /\ (ProtectedRequest /\ http.api_key \notin AcceptedKeys) => RejectedUnrun
    /\ HealthServedWithoutKey

\* with VALID_API_KEYS naming keys, a chat request carrying the development key
\* has been answered 401
C19_DevelopmentKeyRejectedWhenConfigured ==
    /\ pc = "done"
    /\ ConfiguredKeys # {}
    /\ http.api_key = DEFAULT_API_KEY
    /\ request.handler = "chat_message"
    /\ response.status = 401

\* the scenario's input: three meals averaging 500 kcal and the question
\* 'What should I eat for energy?'
ScenarioA ==
    /\ out # NONE
    /\ fn.message = ENERGY_QUESTION
    /\ Len(fn.data.user_data.food_logs) = 3
    /\ SumOf(fn.data.user_data.food_logs, "calories", 0) = 3 * 500

\* the snippet has a part printed from `text` with `value`
SnippetHas(snippet, text, value) ==
    \E i \in 1..Len(snippet) : snippet[i].text = text /\ snippet[i].value = value

\* ---- C18 ----
\* C18: for three food entries averaging 500 kcal, no water and no mood entries
\* and the question 'What should I eat for energy?', the topic is 'nutrition',
\* the snippet built from the food summary (context type 'food') has
\* 'Logged 3 meals' and 'avg 500 cal/meal', and the resources hold a nutrition
\* blog entry and the Mayo Clinic nutrition source
C18_ScenarioA ==
    ScenarioA =>
        /\ out.topic = "nutrition"
        /\ fn.context_type = "food" =>
              /\ SnippetHas(out.relevant_context, "Logged %d meals", 3)
              /\ SnippetHas(out.relevant_context, "avg %d cal/meal", 500)
        /\ \E i \in 1..Len(out.resources), k \in 1..Len(MEDIUM_BLOG_RESOURCES["nutrition"]) :
              out.resources[i] = MEDIUM_BLOG_RESOURCES["nutrition"][k]
        /\ \E i \in 1..Len(out.resources) :
              out.resources[i].title = "Nutrition Basics - Mayo Clinic"

\* the scenario has run with meals of 400, 500 and 600 kcal and context type
\* 'food'
C18_ScenarioAWithUnequalMeals ==
    /\ ScenarioA
    /\ fn.context_type = "food"
    /\ fn.data.user_data.food_logs[1].calories = 400
    /\ fn.data.user_data.food_logs[3].calories = 600
    /\ Len(out.relevant_context) = 2

\* the name an entry is counted under
FoodName(log) == Get(log, "name", "Unknown")

\* the number of entries of a log counted under a name
TimesLogged(food_logs, name) ==
    Cardinality({i \in 1..Len(food_logs) : FoodName(food_logs[i]) = name})

\* ---- C21 ----
\* C21: _get_common_foods returns at most 5 entries (all of them when the log
\* has at most 5 distinct names), one per distinct name, each with the number
\* of log entries of that name (entries without a name counted as 'Unknown'),
\* in order of non-increasing count, and no name left out has a count greater
\* than a name in the list
C21_CommonFoodsRanked ==
    out # NONE /\ "common_foods" \in DOMAIN out =>
        LET foods == out.common_foods
            logged == {FoodName(fn[i]) : i \in 1..Len(fn)}
            listed == {foods[k].name : k \in 1..Len(foods)}
        IN  /\ Len(foods) = Min(5, Cardinality(logged))
            /\ listed \subseteq logged
            /\ \A j, k \in 1..Len(foods) : foods[j].name = foods[k].name => j = k
            /\ \A k \in 1..Len(foods) : foods[k].count = TimesLogged(fn, foods[k].name)
            /\ \A j, k \in 1..Len(foods) : j < k => foods[j].count >= foods[k].count
            /\ \A name \in logged \ listed :
                  \A k \in 1..Len(foods) : TimesLogged(fn, name) <= foods[k].count

\* six foods were logged, the sixth twice and one of them without a name: the
\* sixth is first in the list and a food logged once is left out
C21_SixthFoodLoggedTwice ==
    /\ out # NONE
    /\ "common_foods" \in DOMAIN out
    /\ Len(fn) = 7
    /\ Cardinality({FoodName(fn[i]) : i \in 1..Len(fn)}) = 6
    /\ \E i \in 1..Len(fn) : "name" \notin DOMAIN fn[i]
    /\ FoodName(fn[6]) = FoodName(fn[7])
    /\ Len(out.common_foods) = 5
    /\ out.common_foods[1] = [name |-> FoodName(fn[7]), count |-> 2]

\* ---- C22 ----
\* C22: after any sequence of create_setting, update_setting, delete_setting
\* and get_active_settings calls, get_active_settings succeeds and returns a
\* setting with is_active = true
C22_ActiveSettingsSucceeds ==
    (request # NONE /\ request.handler = "get_active_settings") =>
        /\ response.status = 200
        /\ response.success
        /\ response.settings.is_active

\* no request is being handled
AllIdle == \A w \in DOMAIN workers : workers[w] = IdleThread

\* the (api key hash, endpoint) pairs of the requests that arrived
ArrivedPairs ==
    {[api_key_hash |-> arrived[i].api_key_hash, endpoint |-> arrived[i].endpoint] :
        i \in 1..Len(arrived)}

\* the requests that arrived for a pair
RequestsOf(pair) ==
    {i \in 1..Len(arrived) :
        arrived[i].api_key_hash = pair.api_key_hash
        /\ arrived[i].endpoint = pair.endpoint}

\* the rows stored for a pair
RowsOf(pair) == Selected(pair.api_key_hash, pair.endpoint)

RECURSIVE CountOver(_)
\* the sum of request_count over a set of rows
CountOver(rows) ==
    IF rows = {} THEN 0
    ELSE LET i == CHOOSE i \in rows : TRUE
         IN  api_usage[i].request_count + CountOver(rows \ {i})

\* ---- C23 ----
\* C23: with requests handled one at a time, once the requests have completed
\* the request_count stored for an (api key hash, endpoint) pair is the number
\* of requests made to that endpoint with that key
C23_CountEqualsRequests ==
    AllIdle =>
        \A pair \in ArrivedPairs :
            CountOver(RowsOf(pair)) = Cardinality(RequestsOf(pair))

\* the calls of log_api_usage made for the requests of a pair: one by
\* before_request, one more by the decorator of a wrapped view
CallsOf(pair) ==
    Cardinality(RequestsOf(pair))
    + Cardinality({i \in RequestsOf(pair) : arrived[i].view \in DECORATED})

\* ---- C24 ----
\* C24: when requests with the same key and endpoint run log_api_usage
\* concurrently, the table ends with exactly one row for the pair and no
\* increment is lost
C24_OneRowNoLostIncrement ==
    AllIdle =>
        \A pair \in ArrivedPairs :
            /\ Cardinality(RowsOf(pair)) = 1
            /\ CountOver(RowsOf(pair)) = CallsOf(pair)

\* ---- C25 ----
\* C25: a failure of usage logging never blocks authentication: a request to a
\* protected endpoint with an accepted key is never answered 401, and never
\* answered 500 by the error handler before its view has run
C25_UsageLoggingNeverBlocks ==
    (ProtectedRequest /\ http.api_key \in AcceptedKeys /\ pc = "done") =>
        /\ response # Unauthorized
        /\ response # InternalError

\* ---- C26 ----
\* the ids of the events of one kind since the history was last cleared
LastCleared ==
    LET cleared == {i \in 1..Len(events) : events[i].kind = "cleared"}
    IN  IF cleared = {} THEN 0 ELSE CHOOSE i \in cleared : \A j \in cleared : j <= i

SinceClear(kind) ==
    LET later == SelectSeq(SubSeq(events, LastCleared + 1, Len(events)),
                           LAMBDA e : e.kind = kind)
    IN  [i \in 1..Len(later) |-> later[i].id]

HistoryIds == [i \in 1..Len(conversation_history) |-> conversation_history[i].id]

\* what one answer of the simple chat app does to the history: a 400 leaves it
\* as it was, a clear leaves it empty, and a status reports its length
SimpleAnswerStep ==
    Len(events') > Len(events) =>
        LET e == events'[Len(events')]
        IN  /\ e.kind = "rejected" => conversation_history' = conversation_history
            /\ e.kind = "cleared" => conversation_history' = <<>>
            /\ e.kind = "status" => e.conversation_count = Len(conversation_history')

\* C26 (as stated): when no request is in progress the history holds exactly one
\* entry for each chat request with a non-empty message that completed since the
\* last clear, in completion order; a 400 leaves the history unchanged, a clear
\* leaves it empty, and the status reports the length of the history
C26_OneEntryPerCompletedChat ==
    /\ [](AllIdle => HistoryIds = SinceClear("returned"))
    /\ [][SimpleAnswerStep]_vars

\* C26 (amended): the history always holds exactly one entry for each chat
\* request with a non-empty message whose entry was stored since the last clear,
\* in the order the entries were stored, whether the model call succeeded or the
\* apology was substituted; a 400 leaves the history unchanged, a clear leaves
\* it empty, and the status reports the length of the history at the time it
\* is read
C26_OneEntryPerStoredChat ==
    /\ [](HistoryIds = SinceClear("stored"))
    /\ [][SimpleAnswerStep]_vars

\* no request is in progress, and a chat stored its entry before a clear and
\* returned after it
C26_ChatReturnedAfterClear ==
    /\ AllIdle
    /\ \E i, j, k \in 1..Len(events) :
          /\ i < j /\ j < k
          /\ events[i].kind = "stored"
          /\ events[j].kind = "cleared"
          /\ events[k].kind = "returned"
          /\ events[k].id = events[i].id

\* ---- C27 ----
\* the status view in hand probed the model and the call raised
ProbeRaised(view) ==
    /\ pc = "done"
    /\ request.handler = view
    /\ response \notin {Unauthorized, InternalError}
    /\ calls # <<>>
    /\ calls[Len(calls)].outcome = "raises"

\* C27: when the ollama.chat call made through safe_ollama_chat raises,
\* /api/status reports the ollama component as unhealthy and the overall status
\* as degraded, /startup reports ollama as unhealthy, and /api/ollama-status
\* answers with status unhealthy
C27_FailedBackendReportedUnhealthy ==
    /\ ProbeRaised("status") =>
          /\ response.ollama # "healthy"
          /\ response.body = "degraded"
    /\ ProbeRaised("startup_status") => response.ollama # "healthy"
    /\ ProbeRaised("ollama_status") => response.body = "unhealthy"

\* ---- C28 ----
\* the prompt has the part of that name
HasPart(p, part) == \E i \in 1..Len(p) : p[i].part = part

\* C28: the cutover does not fire on the fixed parts alone: for the default
\* user name 'User', a question of at most 30 characters and a topic with two
\* blog entries and one authoritative entry, the prompt returned by
\* _create_optimized_prompt has the 'Available Resources' block and, when there
\* is a snippet, the 'Relevant Data' line
C28_FixedPartsFitTheBudget ==
    (/\ out # NONE
     /\ TextLen(fn.message) <= 30
     /\ Len(out.resources) = 3)
    => /\ HasPart(out.prompt, "resources")
       /\ out.relevant_context # <<>> => HasPart(out.prompt, "relevant_data")

\* ---- C29 ----
\* the body names no username or no password
MissingCredentials(data) ==
    \/ data = NONE
    \/ Falsy(data.username)
    \/ Falsy(data.password)

\* the rows of the user table the body's username and password match
Matching(data) ==
    {u \in fn.users : u.username = data.username /\ check_password(u, data.password)}

\* a session is established only for a user whose password check succeeds and
\* whose is_admin flag is true, and not by a request answered 400, 401 or 403
OnlyAdminsLoggedIn ==
    out # NONE =>
        /\ (out.session # out.before \/ out.response.status = 200) =>
              /\ ~MissingCredentials(out.data)
              /\ \E u \in Matching(out.data) :
                    u.is_admin = "True" /\ out.session = [user_id |-> u.id]
        /\ out.response.status \in {400, 401, 403} => out.session = out.before

\* C29: POST /auth/login establishes a session only for a user whose password
\* check succeeds and whose is_admin flag is true; missing credentials give 400,
\* an unknown user or a wrong password gives 401, a correct password of a
\* non-admin user gives 403, and in these three cases no session is established
C29_LoginOnlyForAdmins ==
    /\ OnlyAdminsLoggedIn
    /\ out # NONE =>
          /\ MissingCredentials(out.data) => out.response.status = 400
          /\ (~MissingCredentials(out.data) /\ Matching(out.data) = {}) =>
                out.response.status = 401
          /\ (~MissingCredentials(out.data)
              /\ \E u \in Matching(out.data) : u.is_admin # "True") =>
                out.response.status = 403

\* ---- C30 ----
\* C30: the result of sanitize_input has length at most max_length, holds none
\* of the characters < > " ' & ; ( ) { } [ ], has no leading or trailing
\* whitespace, and sanitizing it again with the same max_length returns it
\* unchanged
C30_SanitizedAndIdempotent ==
    out # NONE =>
        LET result == Shown(out.once, out.once.pad)
        IN  /\ TextLen(out.once) <= fn.max_length
            /\ Len(result) = TextLen(out.once)
            /\ \A i \in 1..Len(result) : result[i] \notin DANGEROUS_CHARS
            /\ result # <<>> =>
                  /\ result[1] \notin WHITESPACE
                  /\ result[Len(result)] \notin WHITESPACE
            /\ out.twice = out.once

\* a text longer than max_length whose cut leaves a dangerous character with
\* whitespace behind it in front of a letter
C30_CutRemovedAndStripped ==
    /\ out # NONE
    /\ TextLen(fn.text) > fn.max_length
    /\ fn.max_length = 3
    /\ Len(fn.text.chars) >= 3
    /\ SubSeq(fn.text.chars, 1, 3) = <<"<", " ", "a">>
    /\ out.once = Text(<<"a">>, 0)

====
